---- MODULE Spec2Model ----
(***************************************************************************)
(* Model of the document-parsing core of vietnam-me: the section parser    *)
(* (parse-structure), the KPI/target extractor (extract-targets) and the   *)
(* pipeline orchestrator (pipeline).                                       *)
(*                                                                         *)
(* Text is a sequence of characters, each character a string.  An ASCII    *)
(* character is itself; a Vietnamese letter is its base letter followed by *)
(* its marks in VIQR style (^ circumflex, ( breve, + horn, ! grave,        *)
(* ' acute, ? hook, ~ tilde, . dot below), "dd"/"DD" are d-bar, "--" is    *)
(* the en dash.  So "e^!" is one character, a non-ASCII one.               *)
(***************************************************************************)
EXTENDS Integers, Sequences, FiniteSets, TLC

VARIABLES
  \* ---- parseStructure (one call) ----
  lines,               \* text.split('\n')
  ppc,                 \* position in parseStructure: "idle" | "start" | "body" | "done"
  preambleEndIndex,    \* 0-based, exclusive
  signatureStartIndex, \* 0-based
  lineNo,              \* 0-based index in lines of the next content line
  secs,                \* the ParsedSection objects, in creation order
  rootSections,        \* references (indices in secs)
  stack,               \* references (indices in secs), outer to inner
  sortCounter,
  preamble,            \* the returned preamble
  signatureBlock       \* the returned signatureBlock

parseVars == <<lines, ppc, preambleEndIndex, signatureStartIndex, lineNo,
               secs, rootSections, stack, sortCounter, preamble, signatureBlock>>

VARIABLES
  \* ---- extractTargetsRuleBased (calls, one after the other) ----
  draft,               \* the lines of the text the caller is putting together
  tpc,                 \* position in extractTargetsRuleBased: "idle" | "clauses" | "done"
  ruleInput,           \* contentVi, the argument of the call
  pending,             \* the <<sentence, clause>> pairs still to visit
  targets,             \* the targets pushed so far
  origins,             \* history: the KpiMatch each pushed target was built from
  returned,            \* the list the call returned
  lastIndex,           \* lastIndex of each KPI_REGEX_PATTERNS[k].regex (module state)
  calls,               \* history: how many calls were made
  scan                 \* history: the sentence and clause of the last round of the loop,
                       \* what findKpiMatches returned for it and the targets it pushed

targetVars == <<draft, tpc, ruleInput, pending, targets, origins, returned, lastIndex, calls,
                scan>>

VARIABLES
  \* ---- extractTargets (one call) ----
  xpc,                 \* position in extractTargets: "idle" | "called" | "awaitFetch" |
                       \* "awaitBody" | "responded" | "rule" | "ruleRunning" | "returned" |
                       \* "rejected"
  xtext,               \* contentVi, the argument of the call
  useLLM,              \* options?.useLLM
  apiKey,              \* options?.apiKey
  envKey,              \* process.env.ANTHROPIC_API_KEY
  requests,            \* the requests sent to the Messages API
  response,            \* the response of the Messages API
  llmError,            \* history: what extractTargetsWithLLM threw ("" when nothing)
  resolvedWith            \* the list the call resolved with

extractVars == <<xpc, xtext, useLLM, apiKey, envKey, requests, response, llmError, resolvedWith>>

VARIABLES
  \* ---- runPipeline (one call) ----
  rpc,                 \* position in runPipeline
  filePath,            \* the extension of options.filePath, and what lies beside the file
  dryRun,              \* options.dryRun
  actualFile,          \* the extension of the resolved file
  rawText,
  plainText,           \* history: the text extractText gave ('' when it failed)
  htmlText,
  errors,
  raised,              \* history: the stages that threw, in the order they did
  stagesRun,           \* history: the stages that were invoked, in order
  ocrCalls,            \* history: how many times extractPdfTextWithOcr was called
  parsedDoc,
  leaves,              \* the leaves still to visit
  totalTargets,
  appendices,
  documentId,
  outcome,             \* the PipelineResult the call resolved with
  extractCalls,        \* history: the leaves extractTargets was called for, in order
  targetsBySectionKey, \* the map: how many targets are kept under each key
  sectionIdMap,        \* the keys of the map prepareSectionRecords returned
  targetRecords,       \* history: how many PlanTarget records were built
  store                \* the PlanDocument of this call in the database

pipeVars == <<rpc, filePath, dryRun, actualFile, rawText, plainText, htmlText, errors, raised,
              stagesRun, ocrCalls, parsedDoc, leaves, totalTargets, appendices, documentId,
              outcome, extractCalls, targetsBySectionKey, sectionIdMap, targetRecords, store>>

VARIABLES
  \* ---- one call of a function that keeps no state ----
  fpc,                 \* "idle" | "called" | "returned"
  input,               \* the argument of the call
  output               \* what the call returned

callVars == <<fpc, input, output>>

VARIABLES
  \* ---- the batch parser (one run of main) ----
  bpc,                 \* "idle" | "load" | "loop" | "exited" | "aborted"
  manifest,            \* manifest.files: the number and the skip flag of each entry
  batchOptions,        \* --dry-run and --force
  existing,            \* the numbers of the documents the database has COMPLETED with sections
  completedDocs,
  entryIndex,          \* i of the loop
  batchResults,        \* results
  exitCode             \* the status of the process

batchVars == <<bpc, manifest, batchOptions, existing, completedDocs, entryIndex, batchResults,
               exitCode>>

vars == <<parseVars, targetVars, extractVars, pipeVars, callVars, batchVars>>

\* what each component's actions leave alone
nonParseVars == <<targetVars, extractVars, pipeVars, callVars, batchVars>>
nonTargetVars == <<parseVars, extractVars, pipeVars, callVars, batchVars>>
nonExtractVars == <<parseVars, pipeVars, callVars, batchVars>>
nonPipeVars == <<parseVars, targetVars, extractVars, callVars, batchVars>>
nonCallVars == <<parseVars, targetVars, extractVars, pipeVars, batchVars>>
nonBatchVars == <<parseVars, targetVars, extractVars, pipeVars, callVars>>

CallIdle == fpc = "idle" /\ input = <<>> /\ output = <<>>
BatchIdle ==
  /\ bpc = "idle" /\ manifest = <<>> /\ batchOptions = [dryRun |-> FALSE, force |-> FALSE]
  /\ existing = {} /\ completedDocs = {} /\ entryIndex = 0 /\ batchResults = <<>>
  /\ exitCode = 0

-----------------------------------------------------------------------------
(* Characters *)

Digits == {"0","1","2","3","4","5","6","7","8","9"}
LowerAscii == <<"a","b","c","d","e","f","g","h","i","j","k","l","m",
                "n","o","p","q","r","s","t","u","v","w","x","y","z">>
UpperAscii == <<"A","B","C","D","E","F","G","H","I","J","K","L","M",
                "N","O","P","Q","R","S","T","U","V","W","X","Y","Z">>
\* The Vietnamese letters: d-bar and the vowels with their marks
LowerVn == <<"dd","a!","a'","a?","a~","a.","a(","a('","a(!","a(?","a(~","a(.","a^",
             "a^'","a^!","a^?","a^~","a^.","e!","e'","e?","e~","e.","e^","e^'",
             "e^!","e^?","e^~","e^.","i!","i'","i?","i~","i.","o!","o'","o?","o~",
             "o.","o^","o^'","o^!","o^?","o^~","o^.","o+","o+'","o+!","o+?","o+~",
             "o+.","u!","u'","u?","u~","u.","u+","u+'","u+!","u+?","u+~","u+.",
             "y!","y'","y?","y~","y.">>
UpperVn == <<"DD","A!","A'","A?","A~","A.","A(","A('","A(!","A(?","A(~","A(.","A^",
             "A^'","A^!","A^?","A^~","A^.","E!","E'","E?","E~","E.","E^","E^'",
             "E^!","E^?","E^~","E^.","I!","I'","I?","I~","I.","O!","O'","O?","O~",
             "O.","O^","O^'","O^!","O^?","O^~","O^.","O+","O+'","O+!","O+?","O+~",
             "O+.","U!","U'","U?","U~","U.","U+","U+'","U+!","U+?","U+~","U+.",
             "Y!","Y'","Y?","Y~","Y.">>

SeqToSet(q) == {q[k] : k \in 1..Len(q)}

\* String.prototype.toUpperCase / toLowerCase on one character
charMap(from, to) == [c \in SeqToSet(from) |-> to[CHOOSE k \in 1..Len(from) : from[k] = c]]
UpperOf == charMap(LowerAscii \o LowerVn, UpperAscii \o UpperVn)
LowerOf == charMap(UpperAscii \o UpperVn, LowerAscii \o LowerVn)
mapped(c, map) == IF c \in DOMAIN map THEN map[c] ELSE c
toUpperChar(c) == mapped(c, UpperOf)
toLowerChar(c) == mapped(c, LowerOf)
toUpperCase(s) == [k \in 1..Len(s) |-> toUpperChar(s[k])]
toLowerCase(s) == [k \in 1..Len(s) |-> toLowerChar(s[k])]

\* \s, \d and \w of a JavaScript regex without the u flag
WhiteSpace == {" ", "\t", "\n", "\r"}
LineTerminators == {"\n", "\r"}
WordChars == SeqToSet(LowerAscii) \cup SeqToSet(UpperAscii) \cup Digits \cup {"_"}

\* String.prototype.trim
RECURSIVE trimStart(_)
trimStart(s) == IF s # <<>> /\ Head(s) \in WhiteSpace THEN trimStart(Tail(s)) ELSE s
RECURSIVE trimEnd(_)
trimEnd(s) == IF s # <<>> /\ s[Len(s)] \in WhiteSpace
              THEN trimEnd(SubSeq(s, 1, Len(s) - 1)) ELSE s
trim(s) == trimEnd(trimStart(s))

\* String.prototype.startsWith / includes
startsWith(s, p) == Len(p) <= Len(s) /\ SubSeq(s, 1, Len(p)) = p
includes(s, p) == \E k \in 0..(Len(s) - Len(p)) : SubSeq(s, k + 1, k + Len(p)) = p

\* Array.prototype.join with a newline separator of a sequence of strings
RECURSIVE joinLines(_)
joinLines(ls) == IF ls = <<>> THEN <<>>
                 ELSE IF Len(ls) = 1 THEN ls[1]
                 ELSE ls[1] \o <<"\n">> \o joinLines(Tail(ls))

-----------------------------------------------------------------------------
(* Regular expressions: a backtracking matcher with the priorities of the  *)
(* JavaScript engine (leftmost alternative first, greedy or lazy           *)
(* repetition), over regex trees built with the constructors below.        *)

Set(cs) == [t |-> "set", cs |-> cs]
NotSet(cs) == [t |-> "nset", cs |-> cs]
AnyChar == [t |-> "any"]
Cat(a) == [t |-> "seq", a |-> a]
Alt(a) == [t |-> "alt", a |-> a]
\* max = -1: unbounded
Rep(r, min, max, greedy) == [t |-> "rep", r |-> r, min |-> min, max |-> max, greedy |-> greedy]
Star(r) == Rep(r, 0, -1, TRUE)
Plus(r) == Rep(r, 1, -1, TRUE)
Opt(r) == Rep(r, 0, 1, TRUE)
Cap(n, r) == [t |-> "cap", n |-> n, r |-> r]
LookAhead(r) == [t |-> "la", r |-> r, neg |-> FALSE]
NotAhead(r) == [t |-> "la", r |-> r, neg |-> TRUE]
Behind(cs) == [t |-> "lb", cs |-> cs]
WB == [t |-> "wb"]
Bol == [t |-> "bol"]
Eol == [t |-> "eol"]
\* a literal, case-sensitive or (flag i) case-insensitive
Lit(s) == Cat([k \in 1..Len(s) |-> Set({s[k]})])
\* with the flag i a character is compared after Canonicalize (toUpperCase)
CharI(c) == [t |-> "chi", c |-> c]
LitI(s) == Cat([k \in 1..Len(s) |-> CharI(s[k])])
S0 == Star(Set(WhiteSpace))  \* \s*
S1 == Plus(Set(WhiteSpace))  \* \s+

NoCaps == <<<<0, 0>>, <<0, 0>>, <<0, 0>>>>
NoMatch == [ok |-> FALSE, e |-> 0, c |-> NoCaps]
Dec(n) == IF n > 0 THEN n - 1 ELSE n
IsWordAt(s, i) == i >= 1 /\ i <= Len(s) /\ s[i] \in WordChars

\* a node that takes exactly one character
sameIn(map, a, b) == mapped(a, map) = mapped(b, map)
IsAtom(r) == r.t \in {"set", "nset", "chi", "any"}
atomTakes(r, c) == CASE r.t = "set" -> c \in r.cs
                     [] r.t = "nset" -> c \notin r.cs
                     [] r.t = "chi" -> sameIn(UpperOf, c, r.c)
                     [] r.t = "any" -> c \notin LineTerminators
\* how many characters from position i on (at most max, if max # -1) the atom r takes
leastOr(S, n) == IF S = {} THEN n ELSE CHOOSE j \in S : \A k \in S : j <= k
runUpTo(r, s, i, lim) == leastOr({n \in 0..(lim - 1) : ~atomTakes(r, s[i + n])}, lim)
atMost(max, left) == IF max # -1 /\ max < left THEN max ELSE left
runLength(r, s, i, max) == runUpTo(r, s, i, atMost(max, Len(s) - i + 1))

\* Match the regex nodes k, in sequence, against s from position i (1-based).
\* A repetition of a one-character node tries its lengths from the longest
\* (greedy) or from the shortest (lazy).
RECURSIVE Mk(_, _, _, _), tryDown(_, _, _, _, _), tryUp(_, _, _, _, _)
tryDown(k, s, j, lo, caps) ==
  IF j < lo THEN NoMatch
  ELSE LET r == Mk(k, s, j, caps) IN IF r.ok THEN r ELSE tryDown(k, s, j - 1, lo, caps)
tryUp(k, s, j, hi, caps) ==
  IF j > hi THEN NoMatch
  ELSE LET r == Mk(k, s, j, caps) IN IF r.ok THEN r ELSE tryUp(k, s, j + 1, hi, caps)
repeatAtom(h, rest, s, i, caps, n) ==
  IF n < h.min THEN NoMatch
  ELSE IF h.greedy THEN tryDown(rest, s, i + n, i + h.min, caps)
  ELSE tryUp(rest, s, i + h.min, i + n, caps)
Mk(k, s, i, caps) ==
  IF k = <<>> THEN [ok |-> TRUE, e |-> i, c |-> caps]
  ELSE LET h == Head(k)
           rest == Tail(k)
       IN CASE h.t = "set" ->
                 IF i <= Len(s) /\ s[i] \in h.cs THEN Mk(rest, s, i + 1, caps) ELSE NoMatch
            [] h.t = "nset" ->
                 IF i <= Len(s) /\ s[i] \notin h.cs THEN Mk(rest, s, i + 1, caps) ELSE NoMatch
            [] h.t = "chi" ->
                 IF i <= Len(s) /\ atomTakes(h, s[i]) THEN Mk(rest, s, i + 1, caps) ELSE NoMatch
            [] h.t = "any" ->
                 IF i <= Len(s) /\ s[i] \notin LineTerminators
                 THEN Mk(rest, s, i + 1, caps) ELSE NoMatch
            [] h.t = "seq" -> Mk(h.a \o rest, s, i, caps)
            [] h.t = "alt" ->
                 IF h.a = <<>> THEN NoMatch
                 ELSE LET r == Mk(<<Head(h.a)>> \o rest, s, i, caps)
                      IN IF r.ok THEN r ELSE Mk(<<Alt(Tail(h.a))>> \o rest, s, i, caps)
            [] h.t = "rep" /\ IsAtom(h.r) ->
                 repeatAtom(h, rest, s, i, caps, runLength(h.r, s, i, h.max))
            [] h.t = "rep" /\ ~IsAtom(h.r) ->
                 LET more == IF h.max = 0 THEN NoMatch
                             ELSE Mk(<<h.r, [t |-> "chk", from |-> i],
                                       Rep(h.r, Dec(h.min), Dec(h.max), h.greedy)>> \o rest,
                                     s, i, caps)
                     stop == IF h.min = 0 THEN Mk(rest, s, i, caps) ELSE NoMatch
                 IN IF h.greedy THEN (IF more.ok THEN more ELSE stop)
                                ELSE (IF stop.ok THEN stop ELSE more)
            [] h.t = "chk" -> IF i > h.from THEN Mk(rest, s, i, caps) ELSE NoMatch
            [] h.t = "cap" -> Mk(<<h.r, [t |-> "capend", n |-> h.n, from |-> i]>> \o rest,
                                 s, i, caps)
            [] h.t = "capend" -> Mk(rest, s, i, [caps EXCEPT ![h.n] = <<h.from, i>>])
            [] h.t = "la" ->
                 IF Mk(<<h.r>>, s, i, caps).ok # h.neg THEN Mk(rest, s, i, caps) ELSE NoMatch
            [] h.t = "lb" ->
                 IF i > 1 /\ s[i - 1] \in h.cs THEN Mk(rest, s, i, caps) ELSE NoMatch
            [] h.t = "wb" ->
                 IF IsWordAt(s, i - 1) # IsWordAt(s, i) THEN Mk(rest, s, i, caps) ELSE NoMatch
            [] h.t = "bol" -> IF i = 1 THEN Mk(rest, s, i, caps) ELSE NoMatch
            [] h.t = "eol" -> IF i = Len(s) + 1 THEN Mk(rest, s, i, caps) ELSE NoMatch

\* RegExp.prototype.exec from position from (1-based): the leftmost match.
\* index and e are 1-based, e exclusive; a capture is <<from, to>> with to
\* exclusive, <<0, 0>> when the group did not take part.
Least(S) == CHOOSE j \in S : \A k \in S : j <= k
NoExec == [ok |-> FALSE, index |-> 0, e |-> 0, c |-> NoCaps]
\* the match at the least position of tries (the matches position by position)
leftmost(tries, hits) ==
  IF hits = {} THEN NoExec
  ELSE [ok |-> TRUE, index |-> Least(hits), e |-> tries[Least(hits)].e,
        c |-> tries[Least(hits)].c]
hitsOf(tries) == leftmost(tries, {j \in DOMAIN tries : tries[j].ok})
execFrom(re, s, from) == hitsOf([j \in from..(Len(s) + 1) |-> Mk(<<re>>, s, j, NoCaps)])
exec(re, s) == execFrom(re, s, 1)
test(re, s) == exec(re, s).ok
\* the text of capture n of match m in s ("" when the group did not take part)
group(s, m, n) == IF m.c[n] = <<0, 0>> THEN <<>> ELSE SubSeq(s, m.c[n][1], m.c[n][2] - 1)
took(m, n) == m.c[n] # <<0, 0>>

-----------------------------------------------------------------------------
(* parse-structure: the rule-based section parser *)

Levels == <<"DIEU", "ROMAN", "ARABIC", "LETTER", "DASH">>
LEVEL_PRIORITY == [l \in SeqToSet(Levels) |-> (CHOOSE k \in 1..Len(Levels) : Levels[k] = l) - 1]

\* /^Điều\s+(\d+)\.\s*(.+)$/
RE_DIEU == Cat(<<Bol, Lit(<<"DD","i","e^!","u">>), S1, Cap(1, Plus(Set(Digits))),
                 Lit(<<".">>), S0, Cap(2, Plus(AnyChar)), Eol>>)
\* /^(\d+)\.\s+(.+)$/
RE_ARABIC == Cat(<<Bol, Cap(1, Plus(Set(Digits))), Lit(<<".">>), S1,
                   Cap(2, Plus(AnyChar)), Eol>>)
\* /^([a-zđ])\)\s+(.+)$/
RE_LETTER == Cat(<<Bol, Cap(1, Set(SeqToSet(LowerAscii) \cup {"dd"})), Lit(<<")">>), S1,
                   Cap(2, Plus(AnyChar)), Eol>>)
\* /^(X{0,3}(?:IX|IV|V?I{0,3}))\.\s+(.+)$/
RE_ROMAN == Cat(<<Bol,
                  Cap(1, Cat(<<Rep(Set({"X"}), 0, 3, TRUE),
                               Alt(<<Lit(<<"I","X">>), Lit(<<"I","V">>),
                                     Cat(<<Opt(Set({"V"})), Rep(Set({"I"}), 0, 3, TRUE)>>)>>)>>)),
                  Lit(<<".">>), S1, Cap(2, Plus(AnyChar)), Eol>>)
\* /^[-+]\s+(.+)$/
RE_DASH == Cat(<<Bol, Set({"-", "+"}), S1, Cap(1, Plus(AnyChar)), Eol>>)

PREAMBLE_END_MARKERS ==
  << <<"Q","U","Y","E^'","T"," ","N","G","H","I.",":">>,
     <<"Q","U","Y","E^'","T"," ","DD","I.","N","H",":">> >>

SIGNATURE_MARKERS ==
  << <<"P","H","U."," ","L","U.","C">>,
     <<"C","H","U?"," ","T","I.","C","H">>,
     <<"T","M",".">>,
     <<"N","O+","I"," ","N","H","A^.","N",":">>,
     <<"K","T",".">> >>

NoLine == [ok |-> FALSE, level |-> "", sectionNumber |-> <<>>, text |-> <<>>]
Matched(level, number, text) ==
  [ok |-> TRUE, level |-> level, sectionNumber |-> number, text |-> text]

\* matchLine: the first pattern that matches the trimmed line, or null
firstPattern(trimmed, d, r, a, l, h) ==
  IF d.ok THEN Matched("DIEU", group(trimmed, d, 1), group(trimmed, d, 2))
  ELSE IF r.ok /\ group(trimmed, r, 1) # <<>>
       THEN Matched("ROMAN", group(trimmed, r, 1), group(trimmed, r, 2))
  ELSE IF a.ok THEN Matched("ARABIC", group(trimmed, a, 1), group(trimmed, a, 2))
  ELSE IF l.ok THEN Matched("LETTER", group(trimmed, l, 1), group(trimmed, l, 2))
  ELSE IF h.ok THEN Matched("DASH", <<>>, group(trimmed, h, 1))
  ELSE NoLine
LinePatterns == <<RE_DIEU, RE_ROMAN, RE_ARABIC, RE_LETTER, RE_DASH>>
execEach(res, s) == [k \in DOMAIN res |-> exec(res[k], s)]
matchLineOf(trimmed, ms) == firstPattern(trimmed, ms[1], ms[2], ms[3], ms[4], ms[5])
matchLine(trimmed) == matchLineOf(trimmed, execEach(LinePatterns, trimmed))

\* a nullable string
Null == [null |-> TRUE, v |-> <<>>]
Str(s) == [null |-> FALSE, v |-> s]

\* appendContent that joins without a newline
appendContent_noSeparator(contentVi, text) == contentVi \o text

\* appendContent: the section's new contentVi
appendContent(contentVi, text) ==
  IF Len(contentVi) > 0 THEN contentVi \o <<"\n">> \o text ELSE text

\* createSection that numbers within the level, not across the document
createSection_sortOrderLost(level, sectionNumber, text, sortOrder) ==
  [level |-> level, sectionNumber |-> sectionNumber,
   titleVi |-> IF level = "DASH" THEN Null ELSE Str(text),
   contentVi |-> <<>>, sortOrder |-> 0, children |-> <<>>]

createSection(level, sectionNumber, text, sortOrder) ==
  [level |-> level, sectionNumber |-> sectionNumber,
   titleVi |-> IF level = "DASH" THEN Null ELSE Str(text),
   contentVi |-> <<>>, sortOrder |-> sortOrder, children |-> <<>>]

\* Phase 1: the preamble boundary (ls is 1-based, the result a 0-based index;
\* -1 when the loop ends without a boundary)
hasPreambleEndMarker(trimmed) ==
  \E k \in 1..Len(PREAMBLE_END_MARKERS) : includes(toUpperCase(trimmed), PREAMBLE_END_MARKERS[k])
RECURSIVE findPreambleEnd(_, _)
findPreambleEnd(ls, i) ==
  IF i >= Len(ls) THEN -1
  ELSE LET trimmed == trim(ls[i + 1])
       IN IF hasPreambleEndMarker(trimmed) THEN i + 1
          ELSE IF test(RE_DIEU, trimmed) THEN i
          ELSE findPreambleEnd(ls, i + 1)
preambleEndOf(ls) ==
  LET found == findPreambleEnd(ls, 0) IN IF found = -1 THEN 0 ELSE found

\* Phase 2: the last Dieu line at or after the preamble boundary, or -1
RECURSIVE findLastDieu(_, _, _)
findLastDieu(ls, i, floor) ==
  IF i < floor THEN -1
  ELSE IF test(RE_DIEU, trim(ls[i + 1])) THEN i
  ELSE findLastDieu(ls, i - 1, floor)
isSignatureLine(upper) ==
  \E k \in 1..Len(SIGNATURE_MARKERS) : startsWith(upper, SIGNATURE_MARKERS[k])
RECURSIVE findSignature(_, _)
findSignature(ls, i) ==
  IF i >= Len(ls) THEN Len(ls)
  ELSE LET upper == toUpperCase(trim(ls[i + 1]))
       IN IF Len(upper) = 0 THEN findSignature(ls, i + 1)
          ELSE IF isSignatureLine(upper) THEN i
          ELSE findSignature(ls, i + 1)
\* signatureStartOf that looks for a signature in a document without Dieu too
signatureStartOf_withoutDieu(ls, pe) == findSignature(ls, pe)

signatureStartOf(ls, pe) ==
  LET lastDieuLine == findLastDieu(ls, Len(ls) - 1, pe)
  IN IF lastDieuLine # -1 THEN findSignature(ls, lastDieuLine + 1) ELSE Len(ls)

\* lines.slice(a, b) with 0-based a (inclusive) and b (exclusive)
slice(ls, a, b) == IF b <= a \/ Len(ls) <= a THEN <<>>
                   ELSE SubSeq(ls, a + 1, IF b > Len(ls) THEN Len(ls) ELSE b)

\* closeUntilParentFor that closes the section on top only
closeUntilParentFor_popsOnce(stk, ss, level) ==
  IF Len(stk) > 0 /\ LEVEL_PRIORITY[ss[stk[Len(stk)]].level] >= LEVEL_PRIORITY[level]
  THEN SubSeq(stk, 1, Len(stk) - 1)
  ELSE stk

\* closeUntilParentFor with <= for <: a section of the same level is not closed
RECURSIVE closeUntilParentFor_keepsSameLevel(_, _, _)
closeUntilParentFor_keepsSameLevel(stk, ss, level) ==
  IF Len(stk) > 0
  THEN IF LEVEL_PRIORITY[ss[stk[Len(stk)]].level] <= LEVEL_PRIORITY[level]
       THEN stk
       ELSE closeUntilParentFor_keepsSameLevel(SubSeq(stk, 1, Len(stk) - 1), ss, level)
  ELSE stk

\* closeUntilParentFor(level): the stack after the pops
RECURSIVE closeUntilParentFor(_, _, _)
closeUntilParentFor(stk, ss, level) ==
  IF Len(stk) > 0
  THEN IF LEVEL_PRIORITY[ss[stk[Len(stk)]].level] < LEVEL_PRIORITY[level]
       THEN stk
       ELSE closeUntilParentFor(SubSeq(stk, 1, Len(stk) - 1), ss, level)
  ELSE stk

\* flattenSections: the references of the tree's sections, in pre-order
RECURSIVE flattenSections(_, _)
flattenSections(refs, ss) ==
  IF refs = <<>> THEN <<>>
  ELSE <<Head(refs)>> \o flattenSections(ss[Head(refs)].children, ss)
       \o flattenSections(Tail(refs), ss)

\* The sample lines of the documents parsed
LDieu == <<"DD","i","e^!","u"," ","1","."," ","A">>
LRoman == <<"I","I","."," ","B">>
LArabic == <<"2","."," ","C">>
LLetter == <<" "," ","a",")"," ","D">>
LDash == <<"-"," ","E">>
LText == <<"x","y">>
LBlank == <<" ">>
LMarker == <<"q","u","y","e^'","t"," ","dd","i.","n","h",":"," ","x">>
LSig == <<"t","m","."," ","X">>
LEmptyRoman == <<"."," ","F">>
LDieuMarker == <<"DD","i","e^!","u"," ","2","."," ","q","u","y","e^'","t"," ","dd","i.","n","h",":"," ","G">>
SectionLines == {LDieu, LRoman, LArabic, LLetter, LDash}
SampleLines == SectionLines \cup {LText, LBlank, LMarker, LSig, LEmptyRoman}
AllLines == SampleLines \cup {LDieuMarker}

\* lines[i].trim() and matchLine(trimmed) of a sample line, evaluated once
trimmedOf == [l \in AllLines |-> trim(l)]
matchOf == [l \in AllLines |-> matchLine(trim(l))]

ParseIdle ==
  /\ lines = <<>> /\ ppc = "idle" /\ preambleEndIndex = 0 /\ signatureStartIndex = 0
  /\ lineNo = 0 /\ secs = <<>> /\ rootSections = <<>> /\ stack = <<>> /\ sortCounter = 0
  /\ preamble = <<>> /\ signatureBlock = <<>>

\* parseStructure, phases 1 and 2
ParseStart ==
  /\ ppc = "start"
  /\ preambleEndIndex' = preambleEndOf(lines)
  /\ signatureStartIndex' = signatureStartOf(lines, preambleEndIndex')
  /\ preamble' = trim(joinLines(slice(lines, 0, preambleEndIndex')))
  /\ signatureBlock' = trim(joinLines(slice(lines, signatureStartIndex', Len(lines))))
  /\ lineNo' = preambleEndIndex'
  /\ ppc' = "body"
  /\ UNCHANGED <<lines, secs, rootSections, stack, sortCounter>>
  /\ UNCHANGED nonParseVars

\* parseStructure, phase 3: a blank content line is skipped
ParseBlank ==
  /\ ppc = "body" /\ lineNo < signatureStartIndex
  /\ Len(trimmedOf[lines[lineNo + 1]]) = 0
  /\ lineNo' = lineNo + 1
  /\ UNCHANGED <<lines, ppc, preambleEndIndex, signatureStartIndex, secs, rootSections,
                 stack, sortCounter, preamble, signatureBlock>>
  /\ UNCHANGED nonParseVars

\* parseStructure, phase 3: a content line that opens a section
\* the section is attached below the top of the stack left by closeUntilParentFor
attach(closed, section, ref) ==
  /\ IF Len(closed) > 0
     THEN /\ secs' = Append([secs EXCEPT ![closed[Len(closed)]].children = Append(@, ref)],
                            section)
          /\ rootSections' = rootSections
     ELSE /\ secs' = Append(secs, section)
          /\ rootSections' = Append(rootSections, ref)
  /\ stack' = Append(closed, ref)
withDashContent(match, created) ==
  IF match.level = "DASH" THEN [created EXCEPT !.contentVi = match.text] ELSE created
openSection(match) ==
  /\ sortCounter' = sortCounter + 1
  /\ attach(closeUntilParentFor(stack, secs, match.level),
            withDashContent(match, createSection(match.level, match.sectionNumber,
                                                 match.text, sortCounter)),
            Len(secs) + 1)
ParseSection ==
  /\ ppc = "body" /\ lineNo < signatureStartIndex
  /\ Len(trimmedOf[lines[lineNo + 1]]) # 0
  /\ \E match \in {matchOf[lines[lineNo + 1]]} : match.ok /\ openSection(match)
  /\ lineNo' = lineNo + 1
  /\ UNCHANGED <<lines, ppc, preambleEndIndex, signatureStartIndex, preamble, signatureBlock>>
  /\ UNCHANGED nonParseVars

\* parseStructure, phase 3: continuation text
ParseContinuation ==
  /\ ppc = "body" /\ lineNo < signatureStartIndex
  /\ \E trimmed \in {trimmedOf[lines[lineNo + 1]]} :
        /\ Len(trimmed) # 0
        /\ ~matchOf[lines[lineNo + 1]].ok
        /\ IF Len(stack) > 0
           THEN secs' = [secs EXCEPT ![stack[Len(stack)]].contentVi = appendContent(@, trimmed)]
           ELSE secs' = secs
  /\ lineNo' = lineNo + 1
  /\ UNCHANGED <<lines, ppc, preambleEndIndex, signatureStartIndex, rootSections, stack,
                 sortCounter, preamble, signatureBlock>>
  /\ UNCHANGED nonParseVars

\* parseStructure returns
ParseReturn ==
  /\ ppc = "body" /\ lineNo >= signatureStartIndex
  /\ ppc' = "done"
  /\ UNCHANGED <<lines, preambleEndIndex, signatureStartIndex, lineNo, secs, rootSections,
                 stack, sortCounter, preamble, signatureBlock>>
  /\ UNCHANGED nonParseVars

\* The documents parsed: every document of at most MaxLines lines over the
\* sample lines, the documents made of a marker line followed by at most
\* MaxDeep section lines (nesting of every depth), and the documents where a
\* line that is both a Dieu heading and holds a preamble-end marker stands
\* first, or after one line, and at most MaxAfter lines follow it.
MaxLines == 4
MaxDeep == 5
MaxAfter == 2
SeqsUpTo(S, n) == UNION {[1..k -> S] : k \in 1..n}
MarkedDieuDocs ==
  {a \o <<LDieuMarker>> \o b : a \in {<<>>, <<LText>>, <<LDieu>>},
                               b \in {<<>>} \cup SeqsUpTo({LDieu, LText, LSig}, MaxAfter)}
Docs == SeqsUpTo(SampleLines, MaxLines)
        \cup {<<LMarker>> \o b : b \in SeqsUpTo(SectionLines, MaxDeep)}
        \cup MarkedDieuDocs

-----------------------------------------------------------------------------
(* extract-targets: numbers *)

\* A number is a finite decimal m / 10^d, kept in lowest form (d = 0 or m not
\* a multiple of 10), so that equal numbers are equal records.
RECURSIVE Norm(_, _)
Norm(m, d) == IF d > 0 /\ m % 10 = 0 THEN Norm(m \div 10, d - 1) ELSE [m |-> m, d |-> d]
RECURSIVE Pow10(_)
Pow10(n) == IF n = 0 THEN 1 ELSE 10 * Pow10(n - 1)
DigitSeq == <<"0","1","2","3","4","5","6","7","8","9">>
digitValue(c) == (CHOOSE k \in 1..10 : DigitSeq[k] = c) - 1
RECURSIVE digitsValue(_, _)
digitsValue(s, acc) == IF s = <<>> THEN acc
                       ELSE digitsValue(Tail(s), 10 * acc + digitValue(Head(s)))
\* the digits parseInt(s, 10) reads: the digits the string starts with
RECURSIVE leadingDigits(_)
leadingDigits(s) ==
  IF s # <<>> /\ Head(s) \in Digits THEN <<Head(s)>> \o leadingDigits(Tail(s)) ELSE <<>>

\* a value that may be null / undefined
NoNumber == [def |-> FALSE, m |-> 0, d |-> 0]
Number(n) == [def |-> TRUE, m |-> n.m, d |-> n.d]

\* parseInt(s, 10) and parseFloat(s) of a string of the form -?\d+(\.\d+)?
parseFloat(s) ==
  LET neg == s # <<>> /\ Head(s) = "-"
      body == IF neg THEN Tail(s) ELSE s
      dot == IF \E k \in 1..Len(body) : body[k] = "."
             THEN CHOOSE k \in 1..Len(body) : body[k] = "." ELSE 0
      whole == IF dot = 0 THEN body ELSE SubSeq(body, 1, dot - 1)
      frac == IF dot = 0 THEN <<>> ELSE SubSeq(body, dot + 1, Len(body))
      mag == digitsValue(whole \o frac, 0)
  IN Norm(IF neg THEN 0 - mag ELSE mag, Len(frac))
parseInt(s) == parseFloat(s)

\* (v + w) / 2
midpoint(v, w) ==
  LET d == IF v.d > w.d THEN v.d ELSE w.d
      sum == v.m * Pow10(d - v.d) + w.m * Pow10(d - w.d)
  IN IF sum % 2 = 0 THEN Norm(sum \div 2, d) ELSE Norm(sum * 5, d + 1)

\* String(n) of a number, as a template literal prints it
RECURSIVE digitsOf(_)
digitsOf(n) == IF n < 10 THEN <<DigitSeq[n + 1]>>
               ELSE digitsOf(n \div 10) \o <<DigitSeq[(n % 10) + 1]>>
RECURSIVE padLeft(_, _)
padLeft(s, n) == IF Len(s) >= n THEN s ELSE padLeft(<<"0">> \o s, n)
numberToString(n) ==
  LET mag == IF n.m < 0 THEN 0 - n.m ELSE n.m
      all == padLeft(digitsOf(mag), n.d + 1)
      whole == SubSeq(all, 1, Len(all) - n.d)
      frac == SubSeq(all, Len(all) - n.d + 1, Len(all))
  IN (IF n.m < 0 THEN <<"-">> ELSE <<>>) \o whole
     \o (IF n.d > 0 THEN <<".">> \o frac ELSE <<>>)

\* s.replace(from, to) with a string pattern: the first occurrence only
replaceFirstChar(s, from, to) ==
  IF \E k \in 1..Len(s) : s[k] = from
  THEN LET k == CHOOSE j \in 1..Len(s) : s[j] = from /\ \A h \in 1..(j - 1) : s[h] # from
       IN SubSeq(s, 1, k - 1) \o to \o SubSeq(s, k + 1, Len(s))
  ELSE s
\* the dots stay
removeDots_keepsDots(s) == s

\* s.replace(/\./g, '')
removeDots(s) == SelectSeq(s, LAMBDA c : c # ".")

D == Set(Digits)
Minus == Opt(Set({"-"}))
\* /^-?\d+$/
RE_INTEGER == Cat(<<Bol, Minus, Plus(D), Eol>>)
\* /^-?\d{1,3}(\.\d{3})+(,\d+)?$/
RE_THOUSANDS == Cat(<<Bol, Minus, Rep(D, 1, 3, TRUE),
                      Plus(Cat(<<Set({"."}), Rep(D, 3, 3, TRUE)>>)),
                      Opt(Cat(<<Set({","}), Plus(D)>>)), Eol>>)
\* /^-?\d+(,\d+)$/
RE_COMMA_DECIMAL == Cat(<<Bol, Minus, Plus(D), Set({","}), Plus(D), Eol>>)
\* /^-?\d+\.\d+$/
RE_DOT_DECIMAL == Cat(<<Bol, Minus, Plus(D), Set({"."}), Plus(D), Eol>>)

parseVietnameseNumber(raw) ==
  LET s == trim(raw)
  IN IF s = <<>> THEN NoNumber
     ELSE IF test(RE_INTEGER, s) THEN Number(parseInt(s))
     ELSE IF test(RE_THOUSANDS, s)
          THEN Number(parseFloat(replaceFirstChar(removeDots(s), ",", <<".">>)))
     ELSE IF test(RE_COMMA_DECIMAL, s)
          THEN Number(parseFloat(replaceFirstChar(s, ",", <<".">>)))
     ELSE IF test(RE_DOT_DECIMAL, s)
          THEN LET dot == CHOOSE k \in 1..Len(s) : s[k] = "."
               IN IF Len(s) - dot = 3 /\ dot - 1 <= 3
                  THEN Number(parseFloat(replaceFirstChar(s, ".", <<>>)))
                  ELSE Number(parseFloat(s))
     ELSE NoNumber

\* /^(-?\d[\d.,]*)/
NumChars == Digits \cup {".", ","}
RE_INLINE == Cat(<<Bol, Cap(1, Cat(<<Minus, D, Star(Set(NumChars))>>))>>)
inlineNumber(s, match) ==
  IF ~match.ok THEN NoNumber ELSE parseVietnameseNumber(group(s, match, 1))
parseInlineNumber(raw) == inlineNumber(trim(raw), exec(RE_INLINE, trim(raw)))



-----------------------------------------------------------------------------
(* extract-targets: sentences, units, years, names *)

\* String.prototype.split with a regular expression without capture groups
\* (p: start of the piece being cut, 1-based; a separator is a match that
\* starts inside the text and does not end at p)
RECURSIVE splitFrom(_, _, _, _)
cutAt(re, s, p, acc, tries, seps) ==
  IF seps = {} THEN Append(acc, SubSeq(s, p, Len(s)))
  ELSE splitFrom(re, s, tries[Least(seps)].e, Append(acc, SubSeq(s, p, Least(seps) - 1)))
cutFirst(re, s, p, acc, tries) ==
  cutAt(re, s, p, acc, tries, {q \in DOMAIN tries : tries[q].ok /\ tries[q].e # p})
splitFrom(re, s, p, acc) ==
  cutFirst(re, s, p, acc, [q \in p..Len(s) |-> Mk(<<re>>, s, q, NoCaps)])
split(s, re) ==
  IF s = <<>> THEN (IF Mk(<<re>>, s, 1, NoCaps).ok THEN <<>> ELSE <<s>>)
  ELSE splitFrom(re, s, 1, <<>>)

\* String.prototype.replace with a regular expression without the g flag
splice(s, m, by) ==
  IF m.ok THEN SubSeq(s, 1, m.index - 1) \o by \o SubSeq(s, m.e, Len(s)) ELSE s
replace(s, re, by) == splice(s, exec(re, s), by)

\* String.prototype.substring(0, n)
substring0(s, n) == IF Len(s) <= n THEN s ELSE SubSeq(s, 1, n)

\* parts.map(p => p.trim()).filter(p => p.length > 0)
RECURSIVE trimmedNonEmpty(_)
trimmedNonEmpty(parts) ==
  IF parts = <<>> THEN <<>>
  ELSE (IF Len(trim(Head(parts))) > 0 THEN <<trim(Head(parts))>> ELSE <<>>)
       \o trimmedNonEmpty(Tail(parts))

VnLetters == SeqToSet(LowerVn) \cup SeqToSet(UpperVn)
UpperLetters == SeqToSet(UpperAscii) \cup SeqToSet(UpperVn)
Letters == SeqToSet(LowerAscii) \cup SeqToSet(UpperAscii) \cup VnLetters

\* /(?<=\.)\s+(?=[A-Z...])|;\s*/
RE_SENTENCE_BREAK ==
  Alt(<<Cat(<<Behind({"."}), S1, LookAhead(Set(UpperLetters))>>), Cat(<<Set({";"}), S0>>)>>)

RECURSIVE splitLines(_)
splitLines(ls) ==
  IF ls = <<>> THEN <<>>
  ELSE (IF Len(trim(Head(ls))) = 0 THEN <<>>
        ELSE trimmedNonEmpty(split(trim(Head(ls)), RE_SENTENCE_BREAK)))
       \o splitLines(Tail(ls))
splitSentences(text) == splitLines(split(text, Set({"\n"})))

\* the character classes of the name patterns, all used with the i flag
NameChars == WordChars \cup VnLetters \cup WhiteSpace \cup {"-"}
NameCharsP == NameChars \cup {",", "(", ")"}
NameCharsS == WordChars \cup VnLetters \cup WhiteSpace
NameStart == WordChars \cup VnLetters
LazyStar(r) == Rep(r, 0, -1, FALSE)
LazyPlus(r) == Rep(r, 1, -1, FALSE)

\* the split pattern of splitSubClauses
RE_SUB_CLAUSE ==
  Cat(<<Set({","}), S1,
        LookAhead(Cat(<<
          Alt(<<Cat(<<LitI(<<"k","h","u">>), S1, LitI(<<"v","u+.","c">>)>>),
                Cat(<<LitI(<<"t","y?">>), S1, Alt(<<LitI(<<"l","e^.">>), LitI(<<"t","r","o.","n","g">>), LitI(<<"s","o^'">>)>>)>>),
                Cat(<<LitI(<<"t","o^'","c">>), S1, LitI(<<"dd","o^.">>)>>), Cat(<<LitI(<<"s","o^'">>), S1, LitI(<<"l","u+","o+.","n","g">>)>>), Cat(<<LitI(<<"d","i","e^.","n">>), S1, LitI(<<"t","i'","c","h">>)>>), Cat(<<LitI(<<"c","h","i","e^!","u">>), S1, LitI(<<"d","a!","i">>)>>),
                LitI(<<"m","u+'","c">>), LitI(<<"G","D","P">>), LitI(<<"H","D","I">>)>>),
          LazyStar(Set(NameCharsP)), S1,
          Alt(<<LitI(<<"dd","a.","t">>), LitI(<<"t","r","e^","n">>), LitI(<<"d","u+","o+'","i">>), LitI(<<"k","h","o","a?","n","g">>), Cat(<<LitI(<<"i'","t">>), S1, LitI(<<"n","h","a^'","t">>)>>), Cat(<<LitI(<<"o+?">>), S1, LitI(<<"m","u+'","c">>)>>),
                LitI(<<"c","o'">>), LitI(<<"l","a!">>), LitI(<<"c","o!","n">>)>>),
          Set(WhiteSpace)>>))>>)

moreThanOne(sentence, parts) ==
  IF Len(parts) <= 1 THEN <<sentence>> ELSE trimmedNonEmpty(parts)
splitSubClauses(sentence) == moreThanOne(sentence, split(sentence, RE_SUB_CLAUSE))


\* UNIT_PATTERNS, in the order of the source
UNIT_PATTERNS == <<
  [regex |-> Cat(<<LitI(<<"%","/","n","a(","m">>), WB>>), unit |-> <<"%","/","n","a(","m">>],
  [regex |-> Lit(<<"%">>), unit |-> <<"%">>],
  [regex |-> Cat(<<WB, LitI(<<"U","S","D">>), WB>>), unit |-> <<"U","S","D">>],
  [regex |-> Cat(<<WB, LitI(<<"t","r","i","e^.","u"," ","U","S","D">>), WB>>), unit |-> <<"t","r","i","e^.","u"," ","U","S","D">>],
  [regex |-> Cat(<<WB, LitI(<<"t","y?"," ","U","S","D">>), WB>>), unit |-> <<"t","y?"," ","U","S","D">>],
  [regex |-> Cat(<<WB, LitI(<<"n","g","h","i!","n"," ","t","y?"," ","dd","o^!","n","g">>), WB>>), unit |-> <<"n","g","h","i!","n"," ","t","y?"," ","dd","o^!","n","g">>],
  [regex |-> Cat(<<WB, LitI(<<"t","y?"," ","dd","o^!","n","g">>), WB>>), unit |-> <<"t","y?"," ","dd","o^!","n","g">>],
  [regex |-> Cat(<<WB, LitI(<<"t","r","i","e^.","u"," ","dd","o^!","n","g">>), WB>>), unit |-> <<"t","r","i","e^.","u"," ","dd","o^!","n","g">>],
  [regex |-> Cat(<<WB, LitI(<<"n","g","h","i!","n"," ","h","a">>), WB>>), unit |-> <<"n","g","h","i!","n"," ","h","a">>],
  [regex |-> Cat(<<WB, LitI(<<"t","r","i","e^.","u"," ","h","a">>), WB>>), unit |-> <<"t","r","i","e^.","u"," ","h","a">>],
  [regex |-> Cat(<<WB, LitI(<<"h","a">>), WB>>), unit |-> <<"h","a">>],
  [regex |-> Cat(<<WB, LitI(<<"k","m">>), WB>>), unit |-> <<"k","m">>],
  [regex |-> Cat(<<WB, Lit(<<"M","W">>), WB>>), unit |-> <<"M","W">>],
  [regex |-> Cat(<<WB, Lit(<<"G","W">>), WB>>), unit |-> <<"G","W">>],
  [regex |-> Cat(<<WB, LitI(<<"g","i","u+","o+!","n","g"," ","b","e^.","n","h">>), WB>>), unit |-> <<"g","i","u+","o+!","n","g"," ","b","e^.","n","h">>],
  [regex |-> Cat(<<WB, LitI(<<"b","a'","c"," ","s","i~">>), WB>>), unit |-> <<"b","a'","c"," ","s","i~">>],
  [regex |-> Cat(<<WB, LitI(<<"n","g","u+","o+!","i">>), WB>>), unit |-> <<"n","g","u+","o+!","i">>],
  [regex |-> Cat(<<WB, LitI(<<"l","a","o"," ","dd","o^.","n","g">>), WB>>), unit |-> <<"l","a","o"," ","dd","o^.","n","g">>],
  [regex |-> Cat(<<WB, LitI(<<"t","r","i","e^.","u"," ","n","g","u+","o+!","i">>), WB>>), unit |-> <<"t","r","i","e^.","u"," ","n","g","u+","o+!","i">>],
  [regex |-> Cat(<<WB, LitI(<<"t","r","i","e^.","u"," ","l","u+","o+.","t">>), WB>>), unit |-> <<"t","r","i","e^.","u"," ","l","u+","o+.","t">>],
  [regex |-> Cat(<<WB, LitI(<<"n","g","h","i!","n"," ","n","g","u+","o+!","i">>), WB>>), unit |-> <<"n","g","h","i!","n"," ","n","g","u+","o+!","i">>],
  [regex |-> Cat(<<WB, LitI(<<"d","a^","n"," ","s","o^'">>), WB>>), unit |-> <<"d","a^","n"," ","s","o^'">>] >>

\* detectUnit: the unit of the first pattern found in the text, or undefined
RECURSIVE detectUnitFrom(_, _)
detectUnitFrom(text, k) ==
  IF k > Len(UNIT_PATTERNS) THEN Null
  ELSE IF test(UNIT_PATTERNS[k].regex, text) THEN Str(UNIT_PATTERNS[k].unit)
  ELSE detectUnitFrom(text, k + 1)
detectUnit(text) == detectUnitFrom(text, 1)

\* normalizeUnit
normalized(hint, s) ==
  IF s = <<"%">> \/ s = <<"%","/","n","a(","m">> THEN Str(s)
  ELSE IF includes(s, <<"u","s","d">>) THEN Str(<<"U","S","D">>)
  ELSE IF includes(s, <<"k","m">>) THEN Str(<<"k","m">>)
  ELSE IF includes(s, <<"h","a">>) THEN Str(<<"h","a">>)
  ELSE IF includes(s, <<"m","w">>) THEN Str(<<"M","W">>)
  ELSE IF includes(s, <<"g","w">>) THEN Str(<<"G","W">>)
  ELSE IF includes(s, <<"n","g","h","i!","n">>) THEN Str(s)
  ELSE IF includes(s, <<"t","r","i","e^.","u">>) THEN Str(s)
  ELSE IF includes(s, <<"t","y?">>) THEN Str(s)
  ELSE IF hint # <<>> THEN Str(hint) ELSE Null
normalizeUnit(hint) == normalized(trim(hint), toLowerCase(trim(hint)))


\* a year that may be undefined
NoYear == -1
Year4 == Rep(D, 4, 4, TRUE)
DashChars == {"-", "--"}
\* /đến\s+năm\s+(\d{4})/i
RE_DEN_NAM == Cat(<<Cat(<<LitI(<<"dd","e^'","n">>), S1, LitI(<<"n","a(","m">>)>>), S1, Cap(1, Year4)>>)
\* /năm\s+(\d{4})/i
RE_NAM == Cat(<<LitI(<<"n","a(","m">>), S1, Cap(1, Year4)>>)
\* /giai\s+đoạn\s+(\d{4})\s*[-–]\s*(\d{4})/i
RE_GIAI_DOAN == Cat(<<Cat(<<LitI(<<"g","i","a","i">>), S1, LitI(<<"dd","o","a.","n">>)>>), S1, Cap(1, Year4), S0, Set(DashChars), S0, Cap(2, Year4)>>)
\* /\b(20\d{2})\b/
RE_STANDALONE_YEAR == Cat(<<WB, Cap(1, Cat(<<Lit(<<"2","0">>), Rep(D, 2, 2, TRUE)>>)), WB>>)

yearOf(text, m, n) == parseInt(group(text, m, n)).m

firstYear(text, denNam, nam, giaiDoan, standalone) ==
  IF denNam.ok THEN yearOf(text, denNam, 1)
  ELSE IF nam.ok THEN yearOf(text, nam, 1)
  ELSE IF giaiDoan.ok THEN yearOf(text, giaiDoan, 2)
  ELSE IF standalone.ok THEN yearOf(text, standalone, 1)
  ELSE NoYear
extractYear(text) ==
  firstYear(text, exec(RE_DEN_NAM, text), exec(RE_NAM, text), exec(RE_GIAI_DOAN, text),
            exec(RE_STANDALONE_YEAR, text))


NoPeriod == [startYear |-> NoYear, endYear |-> NoYear]
periodIn(text, giaiDoan) ==
  IF giaiDoan.ok
  THEN [startYear |-> yearOf(text, giaiDoan, 1), endYear |-> yearOf(text, giaiDoan, 2)]
  ELSE NoPeriod
extractPeriod(text) == periodIn(text, exec(RE_GIAI_DOAN, text))


\* a year that is defined and not 0 (the test "if (year)" of the source)
truthy(year) == year # NoYear /\ year # 0


-----------------------------------------------------------------------------
(* extract-targets: KPI names *)

\* KPI_NAME_PATTERNS (all with the i flag)
KPI_NAME_PATTERNS == <<
  Cat(<<Cat(<<LitI(<<"t","o^'","c">>), S1, LitI(<<"dd","o^.">>)>>), S1, LitI(<<"t","a(","n","g">>), Opt(Cat(<<S1, LitI(<<"t","r","u+","o+?","n","g">>)>>)), S1,
        LazyPlus(Set(NameChars)),
        LookAhead(Cat(<<S1, Opt(Cat(<<Cat(<<LitI(<<"b","i!","n","h">>), S1, LitI(<<"q","u","a^","n">>)>>), S1>>)), LitI(<<"dd","a.","t">>)>>))>>),
  Cat(<<Cat(<<LitI(<<"G","D","P">>), S1, LitI(<<"b","i!","n","h">>), S1, LitI(<<"q","u","a^","n">>), S1, LitI(<<"dd","a^!","u">>), S1, LitI(<<"n","g","u+","o+!","i">>)>>), LazyStar(Set(NameChars)),
        LookAhead(Cat(<<S1, LitI(<<"dd","a.","t">>)>>))>>),
  Cat(<<Cat(<<LitI(<<"t","y?">>), S1, LitI(<<"t","r","o.","n","g">>)>>), LazyStar(Set(NameChars)), LookAhead(Cat(<<S1, LitI(<<"dd","a.","t">>)>>))>>),
  Cat(<<Cat(<<LitI(<<"t","y?">>), S1, LitI(<<"l","e^.">>)>>), LazyStar(Set(NameCharsP)), LookAhead(Cat(<<S1, LitI(<<"dd","a.","t">>)>>))>>),
  Cat(<<Alt(<<Bol, Cat(<<Set({".", ";"}), S0>>)>>),
        Cap(1, Cat(<<Set(Letters), LazyStar(Set(NameCharsP))>>)),
        LookAhead(Cat(<<S1, LitI(<<"dd","a.","t">>)>>))>>) >>

\* /^[-+•]\s*/
RE_BULLET == Cat(<<Bol, Set({"-", "+", "bullet"}), S0>>)
\* Về\s+[...]+:\s*
VePrefix == Cat(<<LitI(<<"V","e^!">>), S1, Plus(Set(NameCharsS)), Set({":"}), S0>>)
\* /^(?:Về\s+[...]+:\s*)/i
RE_VE == Cat(<<Bol, VePrefix>>)
\* /^\s*phấn\s+đấu\s+/i
RE_PHAN_DAU_S == Cat(<<Bol, S0, Cat(<<LitI(<<"p","h","a^'","n">>), S1, LitI(<<"dd","a^'","u">>)>>), S1>>)
\* /^phấn\s+đấu\s+/i
RE_PHAN_DAU == Cat(<<Bol, Cat(<<LitI(<<"p","h","a^'","n">>), S1, LitI(<<"dd","a^'","u">>)>>), S1>>)
\* đến\s+năm\s+\d{4},?\s*
DenNamPrefix == Cat(<<Cat(<<LitI(<<"dd","e^'","n">>), S1, LitI(<<"n","a(","m">>)>>), S1, Year4, Opt(Set({","})), S0>>)
\* /^đến\s+năm\s+\d{4},?\s*/i
RE_DEN_NAM_PREFIX == Cat(<<Bol, DenNamPrefix>>)
\* /^có\s+/i
RE_CO == Cat(<<Bol, LitI(<<"c","o'">>), S1>>)

\* the keyword before a value
Keyword == Alt(<<LitI(<<"dd","a.","t">>), LitI(<<"t","r","e^","n">>), LitI(<<"d","u+","o+'","i">>), LitI(<<"k","h","o","a?","n","g">>), Cat(<<LitI(<<"i'","t">>), S1, LitI(<<"n","h","a^'","t">>)>>), Cat(<<LitI(<<"o+?">>), S1, LitI(<<"m","u+'","c">>)>>),
                 LitI(<<"c","o'">>), LitI(<<"l","a!">>), LitI(<<"c","o!","n">>)>>)

\* the pattern of beforeKeyword
RE_BEFORE_KEYWORD ==
  Cat(<<Bol, LazyStar(NotSet({".", ";"})),
        Opt(Cat(<<Set({"-", "+", "bullet"}), S0>>)),
        Opt(VePrefix),
        Opt(Cat(<<Cat(<<LitI(<<"p","h","a^'","n">>), S1, LitI(<<"dd","a^'","u">>)>>), S1>>)),
        Opt(DenNamPrefix),
        Opt(Cat(<<LitI(<<"c","o'">>), S1>>)),
        Cap(1, LazyPlus(Set(NameCharsP))),
        LookAhead(Cat(<<S1,
          Alt(<<LitI(<<"dd","a.","t">>), LitI(<<"k","h","o","a?","n","g">>), LitI(<<"t","r","e^","n">>), LitI(<<"d","u+","o+'","i">>), LitI(<<"l","a!">>), LitI(<<"c","o!","n">>), LitI(<<"t","a(","n","g">>),
                LitI(<<"g","i","a?","m">>), Cat(<<LitI(<<"o+?">>), S1, LitI(<<"m","u+'","c">>)>>), Cat(<<LitI(<<"i'","t">>), S1, LitI(<<"n","h","a^'","t">>)>>), Cat(<<LitI(<<"o^?","n">>), S1, LitI(<<"dd","i.","n","h">>)>>)>>),
          Set(WhiteSpace)>>))>>)

\* the pattern of beforeNumber
RE_BEFORE_NUMBER == Cat(<<Bol, Cap(1, LazyPlus(AnyChar)), S1, Keyword, S1, D>>)

\* the pattern of afterNumber
RE_AFTER_NUMBER ==
  Cat(<<Alt(<<LitI(<<"dd","a.","t">>), LitI(<<"t","r","e^","n">>), LitI(<<"d","u+","o+'","i">>), LitI(<<"k","h","o","a?","n","g">>), Cat(<<LitI(<<"i'","t">>), S1, LitI(<<"n","h","a^'","t">>)>>), Cat(<<LitI(<<"o+?">>), S1, LitI(<<"m","u+'","c">>)>>), LitI(<<"c","o'">>)>>),
        S1, D, Star(Set(NumChars)), S0,
        Opt(Alt(<<Cat(<<Lit(<<"%">>), Opt(LitI(<<"/","n","a(","m">>))>>), LitI(<<"U","S","D">>), LitI(<<"k","m">>),
                  LitI(<<"h","a">>), LitI(<<"M","W">>), LitI(<<"G","W">>), LitI(<<"t","r","i","e^.","u">>),
                  LitI(<<"t","y?">>), LitI(<<"n","g","h","i!","n">>)>>)),
        S1, Cap(1, Cat(<<Set(NameStart), Star(Set(NameCharsS))>>))>>)

\* /\s+\S*$/
RE_LAST_WORD == Cat(<<S1, Star(NotSet(WhiteSpace)), Eol>>)

\* the clean-up of a name found by one of KPI_NAME_PATTERNS
cleanName(name) ==
  trim(replace(replace(replace(name, RE_BULLET, <<>>), RE_VE, <<>>), RE_PHAN_DAU_S, <<>>))

\* the loop that strips the prefixes of the text before a number
stripOnce(cleaned) ==
  trim(replace(replace(replace(cleaned, RE_PHAN_DAU, <<>>), RE_DEN_NAM_PREFIX, <<>>),
               RE_CO, <<>>))
RECURSIVE stripPrefixes(_, _)
stripAgain(cleaned, next, attempts) ==
  IF next = cleaned THEN cleaned ELSE stripPrefixes(next, attempts + 1)
stripPrefixes(cleaned, attempts) ==
  IF attempts >= 3 THEN cleaned ELSE stripAgain(cleaned, stripOnce(cleaned), attempts)


\* the name found by the first of KPI_NAME_PATTERNS[k..] that yields one
RECURSIVE nameByPattern(_, _)
matchedName(sentence, match) ==
  trim(IF group(sentence, match, 1) # <<>> THEN group(sentence, match, 1)
       ELSE SubSeq(sentence, match.index, match.e - 1))
nameOrNext(sentence, k, ok, name) ==
  IF ok /\ Len(name) > 3 THEN Str(name) ELSE nameByPattern(sentence, k + 1)
tryPattern(sentence, k, match) ==
  nameOrNext(sentence, k, match.ok, cleanName(matchedName(sentence, match)))
nameOf(patterns, sentence, k) ==
  IF k > Len(patterns) THEN Null ELSE tryPattern(sentence, k, exec(patterns[k], sentence))
nameByPattern(sentence, k) == nameOf(KPI_NAME_PATTERNS, sentence, k)

\* the fallbacks of extractKpiName, in the order of the source
chooseName(sentence, byPattern, beforeKeyword, beforeNumber, cleaned, afterNumber, truncated) ==
  IF ~byPattern.null THEN byPattern.v
  ELSE IF beforeKeyword.ok /\ Len(trim(group(sentence, beforeKeyword, 1))) > 3
       THEN trim(group(sentence, beforeKeyword, 1))
  ELSE IF beforeNumber.ok /\ Len(cleaned) > 3 THEN cleaned
  ELSE IF afterNumber.ok /\ Len(trim(group(sentence, afterNumber, 1))) > 3
       THEN trim(group(sentence, afterNumber, 1))
  ELSE IF truncated # <<>> THEN truncated ELSE substring0(sentence, 60)
nameAmong(sentence, byPattern, beforeKeyword, beforeNumber, afterNumber) ==
  chooseName(sentence, byPattern, beforeKeyword, beforeNumber,
             stripPrefixes(
               trim(replace(replace(group(sentence, beforeNumber, 1), RE_BULLET, <<>>),
                            RE_VE, <<>>)), 0),
             afterNumber,
             trim(replace(substring0(sentence, 80), RE_LAST_WORD, <<>>)))
extractKpiName(sentence) ==
  nameAmong(sentence, nameByPattern(sentence, 1), exec(RE_BEFORE_KEYWORD, sentence),
            exec(RE_BEFORE_NUMBER, sentence), exec(RE_AFTER_NUMBER, sentence))



-----------------------------------------------------------------------------
(* extract-targets: the KPI patterns and findKpiMatches *)

Percent == Cat(<<Lit(<<"%">>), Opt(LitI(<<"/","n","a(","m">>))>>)
Word(w) == Cat(<<WB, LitI(w), WB>>)
NumberText == Cat(<<D, Star(Set(NumChars))>>)
\* the unit alternatives of the patterns
UnitsRange == Alt(<<Percent, Word(<<"U","S","D">>), Word(<<"k","m">>), Word(<<"h","a">>), Word(<<"M","W">>),
                    Word(<<"G","W">>)>>)
UnitsMW == Alt(<<Percent, Word(<<"U","S","D">>), Word(<<"t","r","i","e^.","u">>), Word(<<"t","y?">>), Word(<<"n","g","h","i!","n">>),
                 Word(<<"k","m">>), Word(<<"h","a">>), Word(<<"M","W">>)>>)
UnitsHa == Alt(<<Percent, Word(<<"U","S","D">>), Word(<<"t","r","i","e^.","u">>), Word(<<"t","y?">>), Word(<<"n","g","h","i!","n">>),
                 Word(<<"k","m">>), Word(<<"h","a">>)>>)
UnitsMoney == Alt(<<Percent, Word(<<"U","S","D">>), Word(<<"t","r","i","e^.","u">>), Word(<<"t","y?">>),
                    Word(<<"n","g","h","i!","n">>)>>)

\* KPI_REGEX_PATTERNS, in the order of the source; groups is the number of
\* capture groups of the regex (m.length - 1), valueGroup2 is 0 when absent
KPI_REGEX_PATTERNS == <<
  [regex |-> Cat(<<Cap(1, NumberText), S0, Set(DashChars), S0, Cap(2, NumberText), S0,
                   Cap(3, UnitsRange)>>),
   comparison |-> "range", valueGroup |-> 1, valueGroup2 |-> 2, groups |-> 3],
  [regex |-> Cat(<<Cat(<<LitI(<<"dd","a.","t">>), S1, LitI(<<"k","h","o","a?","n","g">>)>>), S1, Cap(1, NumberText), S0, Cap(2, UnitsMW)>>),
   comparison |-> "approximately", valueGroup |-> 1, valueGroup2 |-> 0, groups |-> 2],
  [regex |-> Cat(<<Cat(<<LitI(<<"dd","a.","t">>), S1, LitI(<<"t","r","e^","n">>)>>), S1, Cap(1, NumberText), S0, Opt(Cap(2, UnitsMW))>>),
   comparison |-> "above", valueGroup |-> 1, valueGroup2 |-> 0, groups |-> 2],
  [regex |-> Cat(<<WB, LitI(<<"t","r","e^","n">>), S1, Cap(1, NumberText), S0, Cap(2, Percent)>>),
   comparison |-> "above", valueGroup |-> 1, valueGroup2 |-> 0, groups |-> 2],
  [regex |-> Cat(<<Opt(Cat(<<LitI(<<"dd","a.","t">>), S1>>)), LitI(<<"d","u+","o+'","i">>), S1, Cap(1, NumberText), S0,
                   Opt(Cap(2, UnitsHa))>>),
   comparison |-> "below", valueGroup |-> 1, valueGroup2 |-> 0, groups |-> 2],
  [regex |-> Cat(<<LitI(<<"dd","a.","t">>), S1, Cap(1, NumberText), S0, Opt(Cap(2, UnitsMW))>>),
   comparison |-> "exact", valueGroup |-> 1, valueGroup2 |-> 0, groups |-> 2],
  [regex |-> Cat(<<LitI(<<"k","h","o","a?","n","g">>), S1, Cap(1, NumberText), S0, Cap(2, UnitsMoney)>>),
   comparison |-> "approximately", valueGroup |-> 1, valueGroup2 |-> 0, groups |-> 2],
  [regex |-> Cat(<<Alt(<<LitI(<<"l","a!">>), LitI(<<"c","o!","n">>)>>), S1, Cap(1, NumberText), S0, Cap(2, Percent)>>),
   comparison |-> "exact", valueGroup |-> 1, valueGroup2 |-> 0, groups |-> 2],
  [regex |-> Cat(<<Alt(<<LitI(<<"t","a(","n","g">>), LitI(<<"g","i","a?","m">>)>>), S1, Cap(1, NumberText), S0,
                   Cap(2, Percent)>>),
   comparison |-> "exact", valueGroup |-> 1, valueGroup2 |-> 0, groups |-> 2],
  [regex |-> Cat(<<Cat(<<LitI(<<"o+?">>), S1, LitI(<<"m","u+'","c">>)>>), S1, Cap(1, NumberText), S0, Opt(Cap(2, UnitsHa))>>),
   comparison |-> "approximately", valueGroup |-> 1, valueGroup2 |-> 0, groups |-> 2],
  [regex |-> Cat(<<Cat(<<LitI(<<"i'","t">>), S1, LitI(<<"n","h","a^'","t">>)>>), S1, Cap(1, NumberText), S0, Opt(Cap(2, UnitsMW))>>),
   comparison |-> "above", valueGroup |-> 1, valueGroup2 |-> 0, groups |-> 2],
  [regex |-> Cat(<<WB, LitI(<<"c","o'">>), S1, Cap(1, NumberText), S0,
                   Cap(2, Alt(<<LitI(<<"k","m">>), LitI(<<"h","a">>), Lit(<<"%">>), LitI(<<"M","W">>),
                                LitI(<<"G","W">>), Cat(<<LitI(<<"g","i","u+","o+!","n","g">>), S1, LitI(<<"b","e^.","n","h">>)>>)>>))>>),
   comparison |-> "exact", valueGroup |-> 1, valueGroup2 |-> 0, groups |-> 2],
  [regex |-> Cat(<<WB, Cap(1, Rep(D, 2, 3, TRUE)), S0, Lit(<<"%">>),
                   NotAhead(Cat(<<S0, Lit(<<"/">>)>>))>>),
   comparison |-> "exact", valueGroup |-> 1, valueGroup2 |-> 0, groups |-> 1],
  [regex |-> Cat(<<Cap(1, NumberText), S0,
                   Cap(2, Alt(<<Cat(<<LitI(<<"t","r","i","e^.","u">>), S1, LitI(<<"U","S","D">>)>>), Cat(<<LitI(<<"t","y?">>), S1, LitI(<<"U","S","D">>)>>), Cat(<<LitI(<<"t","y?">>), S1, LitI(<<"dd","o^!","n","g">>)>>), Cat(<<LitI(<<"n","g","h","i!","n">>), S1, LitI(<<"t","y?">>), S1, LitI(<<"dd","o^!","n","g">>)>>),
                                Cat(<<LitI(<<"t","r","i","e^.","u">>), S1, LitI(<<"dd","o^!","n","g">>)>>), Cat(<<LitI(<<"n","g","h","i!","n">>), S1, LitI(<<"h","a">>)>>), Cat(<<LitI(<<"t","r","i","e^.","u">>), S1, LitI(<<"h","a">>)>>),
                                Cat(<<LitI(<<"n","g","h","i!","n">>), S1, LitI(<<"n","g","u+","o+!","i">>)>>), Cat(<<LitI(<<"t","r","i","e^.","u">>), S1, LitI(<<"n","g","u+","o+!","i">>)>>), Cat(<<LitI(<<"t","r","i","e^.","u">>), S1, LitI(<<"l","u+","o+.","t">>)>>)>>))>>),
   comparison |-> "exact", valueGroup |-> 1, valueGroup2 |-> 0, groups |-> 2],
  [regex |-> Cat(<<Cap(1, NumberText), S1, LitI(<<"U","S","D">>)>>),
   comparison |-> "exact", valueGroup |-> 1, valueGroup2 |-> 0, groups |-> 1] >>

\* every regex with lastIndex 0, as after the module is loaded
FreshLastIndex == [p \in DOMAIN KPI_REGEX_PATTERNS |-> 0]

\* /[a-zA-Z%đĐ]/
RE_UNIT_HINT == Set(SeqToSet(LowerAscii) \cup SeqToSet(UpperAscii) \cup {"%", "dd", "DD"})

\* m[n] of a match: the whole match for n = 0, "" for a group that took no part
captured(s, m, n) == IF n = 0 THEN SubSeq(s, m.index, m.e - 1) ELSE group(s, m, n)

\* the KpiMatch built from match m of pattern p in the sentence
kpiMatchWith(pattern, sentence, m, unitCapture) ==
  [valueStr |-> captured(sentence, m, pattern.valueGroup),
   valueStr2 |-> IF pattern.valueGroup2 # 0 THEN captured(sentence, m, pattern.valueGroup2)
                 ELSE <<>>,
   comparison |-> pattern.comparison,
   unitHint |-> IF unitCapture # <<>> /\ test(RE_UNIT_HINT, unitCapture)
                THEN Str(trim(unitCapture)) ELSE Null,
   matchIndex |-> m.index - 1,
   matchStr |-> SubSeq(sentence, m.index, m.e - 1)]
unitGroup(pattern) ==
  IF pattern.groups + 1 > 2 THEN (IF pattern.valueGroup2 # 0 THEN 3 ELSE 2) ELSE 0
kpiMatchIn(pattern, sentence, m) ==
  kpiMatchWith(pattern, sentence, m, captured(sentence, m, unitGroup(pattern)))
kpiMatchOf(p, sentence, m) == kpiMatchIn(KPI_REGEX_PATTERNS[p], sentence, m)


\* the overlap test that sees a span already used only when it starts at the
\* same place
overlapsUsed_sameStart(usedRanges, matchStart, matchEnd) ==
  \E k \in 1..Len(usedRanges) : matchStart = usedRanges[k][1]

\* usedRanges.some(([s, e]) => matchStart < e && matchEnd > s)
overlapsUsed(usedRanges, matchStart, matchEnd) ==
  \E k \in 1..Len(usedRanges) : matchStart < usedRanges[k][2] /\ matchEnd > usedRanges[k][1]

\* The sample lines of the texts given to the extractor
TRange == <<"T","o^'","c"," ","dd","o^."," ","t","a(","n","g"," ","G","D","P"," ","dd","a.","t"," ","6",",","5"," ","-"," ","7",",","0","%","/","n","a(","m">>
TBelow == <<"T","y?"," ","l","e^."," ","h","o^."," ","n","g","h","e!","o"," ","d","u+","o+'","i"," ","1","%">>
TAbove == <<"T","y?"," ","l","e^."," ","dd","o^"," ","t","h","i."," ","h","o'","a"," ","dd","a.","t"," ","t","r","e^","n"," ","5","0","%">>
TApprox == <<"G","D","P"," ","dd","a^!","u"," ","n","g","u+","o+!","i"," ","dd","a.","t"," ","k","h","o","a?","n","g"," ","7",".","5","0","0"," ","U","S","D">>
TExact == <<"K","i","n","h"," ","t","e^'"," ","s","o^'"," ","dd","a.","t"," ","3","0","%"," ","G","D","P">>
TUnparsed == <<"N","a(","n","g"," ","s","u","a^'","t"," ","l","a","o"," ","dd","o^.","n","g"," ","dd","a.","t"," ","3","5",".">>
TRangeHalf == <<"L","a.","m"," ","p","h","a'","t"," ","dd","a.","t"," ","1",".","2",".","3"," ","-"," ","4","%">>
TRangeNone == <<"N","o+."," ","c","o^","n","g"," ","dd","a.","t"," ","1",".","2",".","3"," ","-"," ","4",".","5",".","6","%">>
TSubClauses == <<"d","i.","c","h"," ","v","u."," ","dd","a.","t"," ","t","r","e^","n"," ","5","0","%",","," ","k","h","u"," ","v","u+.","c"," ","c","o^","n","g"," ","n","g","h","i","e^.","p"," ","t","r","e^","n"," ","4","0","%">>
TSentences == <<"X","u","a^'","t"," ","k","h","a^?","u"," ","t","a(","n","g"," ","1","0","%",";"," ","n","h","a^.","p"," ","k","h","a^?","u"," ","g","i","a?","m"," ","5","%">>
TTwice == <<"T","y?"," ","l","e^."," ","c","h","e"," ","p","h","u?"," ","r","u+!","n","g"," ","dd","a.","t"," ","4","2","%",","," ","dd","e^'","n"," ","n","a(","m"," ","2","0","3","0"," ","dd","a.","t"," ","4","2","%">>
TTwoValues == <<"DD","o^."," ","c","h","e"," ","p","h","u?"," ","r","u+!","n","g"," ","dd","a.","t"," ","4","2","%",","," ","n","a(","m"," ","2","0","3","0"," ","dd","a.","t"," ","4","5","%">>
THas == <<"DD","e^'","n"," ","n","a(","m"," ","2","0","3","0",","," ","c","o'"," ","5",".","0","0","0"," ","k","m"," ","dd","u+","o+!","n","g"," ","c","a","o"," ","t","o^'","c">>
TPipe == <<"X","Y","|","1"," ","dd","a.","t"," ","2","%">>
TYearSentence == <<"DD","e^'","n"," ","n","a(","m"," ","2","0","3","0",","," ","t","y?"," ","l","e^."," ","c","h","e"," ","p","h","u?"," ","r","u+!","n","g"," ","dd","a.","t"," ","4","2","%">>
TPeriodSentence == <<"G","i","a","i"," ","dd","o","a.","n"," ","2","0","2","1"," ","-"," ","2","0","3","0",","," ","G","D","P"," ","dd","a.","t"," ","7","%"," ","n","a(","m"," ","2","0","2","5">>
TTwoYears == <<"N","a(","m"," ","2","0","2","4"," ","dd","a.","t"," ","5","%",","," ","dd","e^'","n"," ","n","a(","m"," ","2","0","3","0"," ","dd","a.","t"," ","9","%">>
TPeriod == <<"G","i","a","i"," ","dd","o","a.","n"," ","2","0","2","1","--","2","0","2","5"," ","t","a(","n","g"," ","6","%">>
TStandalone == <<"D","a^","n"," ","s","o^'"," ","2","0","3","0"," ","dd","a.","t"," ","5"," ","t","r","i","e^.","u"," ","n","g","u+","o+!","i">>
TClauseYear == <<"DD","e^'","n"," ","n","a(","m"," ","2","0","3","0"," ","o^?","n"," ","dd","i.","n","h",","," ","t","y?"," ","l","e^."," ","dd","o^"," ","t","h","i."," ","h","o'","a"," ","2","0","2","5"," ","dd","a.","t"," ","4","5","%">>
TMoney == <<"V","o^'","n"," ","dd","a^!","u"," ","t","u+"," ","dd","a.","t"," ","5"," ","n","g","h","i!","n"," ","t","y?"," ","dd","o^!","n","g",","," ","c","h","i","e^'","m"," ","3","0","%"," ","G","D","P">>
TDollars == <<"X","u","a^'","t"," ","k","h","a^?","u"," ","dd","a.","t"," ","5","0","0"," ","t","r","i","e^.","u"," ","U","S","D">>
TTrailingComma == <<"T","a(","n","g"," ","t","r","u+","o+?","n","g"," ","dd","a.","t"," ","7",",","5",","," ","o^?","n"," ","dd","i.","n","h">>
TTons == <<"S","a?","n"," ","l","u+","o+.","n","g"," ","dd","a.","t"," ","5"," ","t","r","i","e^.","u"," ","t","a^'","n">>
FollowLines == {TPipe, TRange, TBelow, TAbove, TApprox, TExact, TUnparsed, TRangeHalf, TRangeNone,
                TSubClauses, TSentences, TTwice, TTwoValues, THas}
TargetLines == {TPipe, TRange, TBelow, TAbove, TApprox, TExact, TUnparsed, TRangeHalf, TRangeNone,
                TSubClauses, TSentences, TTwice, TTwoValues, THas, TYearSentence,
                TPeriodSentence, TTwoYears, TPeriod, TStandalone, TClauseYear, TMoney, TDollars,
                TTrailingComma, TTons}

\* the sentences and the clauses of the sample lines
RECURSIVE clausesOf(_)
pairsOf(sentence, cs) == [k \in 1..Len(cs) |-> <<sentence, cs[k]>>]
clausesOf(sentences) ==
  IF sentences = <<>> THEN <<>>
  ELSE pairsOf(Head(sentences), splitSubClauses(Head(sentences))) \o clausesOf(Tail(sentences))
SentenceUniverse == UNION {SeqToSet(splitSentences(l)) : l \in TargetLines}
clausesIn(sentences) == UNION {SeqToSet(splitSubClauses(s)) : s \in sentences}
ClauseUniverse == clausesIn(SentenceUniverse)
TextUniverse == SentenceUniverse \cup ClauseUniverse

\* the attempts of every pattern at every position of a text, evaluated once
\* for the sample clauses
triesOf(re, s) == [j \in 1..(Len(s) + 1) |-> Mk(<<re>>, s, j, NoCaps)]
triesEach(patterns, s) == [p \in DOMAIN patterns |-> triesOf(patterns[p].regex, s)]
kpiTries(s) == triesEach(KPI_REGEX_PATTERNS, s)
kpiMatchAt == [c \in ClauseUniverse |-> kpiTries(c)]
cached(table, key, value) == IF key \in DOMAIN table THEN table[key] ELSE value
fromPosition(tries, from) == [j \in {q \in DOMAIN tries : q >= from} |-> tries[j]]
\* the leftmost match of pattern p in the sentence at or after position from
kpiExecFrom(p, sentence, from) ==
  hitsOf(fromPosition(cached(kpiMatchAt, sentence, kpiTries(sentence))[p], from))

\* pattern.regex.exec(sentence) of a regex with the g flag whose lastIndex is
\* last (0-based): the match, and the lastIndex it leaves
globalResult(m) == [m |-> m, lastIndex |-> IF m.ok THEN m.e - 1 ELSE 0]
execGlobal(p, sentence, last) ==
  globalResult(IF last > Len(sentence) THEN NoExec ELSE kpiExecFrom(p, sentence, last + 1))


\* the while loop of findKpiMatches for pattern p, entered with lastIndex last
RECURSIVE execLoop(_, _, _, _, _)
visit(p, sentence, usedRanges, results, x, matchStart, matchEnd) ==
  IF ~x.m.ok THEN [usedRanges |-> usedRanges, results |-> results, lastIndex |-> x.lastIndex]
  ELSE IF overlapsUsed(usedRanges, matchStart, matchEnd)
       THEN execLoop(p, sentence, x.lastIndex, usedRanges, results)
       ELSE execLoop(p, sentence, x.lastIndex,
                     Append(usedRanges, <<matchStart, matchEnd>>),
                     Append(results, kpiMatchOf(p, sentence, x.m)))
visitMatch(p, sentence, usedRanges, results, x) ==
  visit(p, sentence, usedRanges, results, x, x.m.index - 1, x.m.e - 1)
execLoop(p, sentence, last, usedRanges, results) ==
  visitMatch(p, sentence, usedRanges, results, execGlobal(p, sentence, last))


\* one pattern that takes its first match only and does not reset lastIndex
patternMatches_firstMatchOnly(p, sentence, last, usedRanges, results) ==
  LET x == execGlobal(p, sentence, last)
      matchStart == x.m.index - 1
      matchEnd == x.m.e - 1
  IN IF ~x.m.ok \/ overlapsUsed(usedRanges, matchStart, matchEnd)
     THEN [usedRanges |-> usedRanges, results |-> results, lastIndex |-> x.lastIndex]
     ELSE [usedRanges |-> Append(usedRanges, <<matchStart, matchEnd>>),
           results |-> Append(results, kpiMatchOf(p, sentence, x.m)),
           lastIndex |-> x.lastIndex]

\* one round of the for loop of findKpiMatches: lastIndex is reset, then every
\* match of the pattern is visited (last is the lastIndex the regex had)
patternMatches(p, sentence, last, usedRanges, results) ==
  execLoop(p, sentence, 0, usedRanges, results)

\* results.sort((a, b) => a.matchIndex - b.matchIndex), a stable sort
RECURSIVE insertByIndex(_, _)
insertByIndex(sorted, x) ==
  IF sorted = <<>> THEN <<x>>
  ELSE IF sorted[Len(sorted)].matchIndex <= x.matchIndex THEN Append(sorted, x)
  ELSE Append(insertByIndex(SubSeq(sorted, 1, Len(sorted) - 1), x), sorted[Len(sorted)])
RECURSIVE sortByIndex(_, _)
sortByIndex(results, sorted) ==
  IF results = <<>> THEN sorted
  ELSE sortByIndex(Tail(results), insertByIndex(sorted, Head(results)))

\* findKpiMatches, from the lastIndex values li: the matches and the lastIndex
\* values the call leaves
RECURSIVE patternLoop(_, _, _, _, _)
nextPattern(p, sentence, li, r) ==
  patternLoop(p + 1, sentence, [li EXCEPT ![p] = r.lastIndex], r.usedRanges, r.results)
patternLoop(p, sentence, li, usedRanges, results) ==
  IF p > Len(li) THEN [results |-> sortByIndex(results, <<>>), lastIndex |-> li]
  ELSE nextPattern(p, sentence, li, patternMatches(p, sentence, li[p], usedRanges, results))
findKpiMatches(sentence, li) == patternLoop(1, sentence, li, <<>>, <<>>)


-----------------------------------------------------------------------------
(* extract-targets: extractTargetsRuleBased *)

\* detectUnit, extractYear, extractPeriod and extractKpiName of a text,
\* evaluated once for the sample sentences and clauses
factsOf(t) == [unit |-> detectUnit(t), year |-> extractYear(t), period |-> extractPeriod(t),
               name |-> extractKpiName(t)]
sampleFacts == [t \in TextUniverse |-> factsOf(t)]
facts(t) == cached(sampleFacts, t, factsOf(t))

\* the test that skips a match: both values are null
skipsMatch_never(value1, value2) == FALSE

skipsMatch(value1, value2) == ~value1.def /\ ~value2.def

\* the switch on match.comparison, with 'below' filed as a lower bound
assignValues_belowAsMin(target, comparison, value1, value2) ==
  CASE comparison = "range" ->
         [target EXCEPT !.targetMin = value1, !.targetMax = value2,
                        !.targetValue = IF value1.def /\ value2.def
                                        THEN Number(midpoint(value1, value2)) ELSE @]
    [] comparison = "above" ->
         [target EXCEPT !.targetMin = value1, !.targetValue = value1,
                        !.metadata.comparison = "above"]
    [] comparison = "below" ->
         [target EXCEPT !.targetMin = value1, !.targetValue = value1,
                        !.metadata.comparison = "below"]
    [] comparison = "approximately" ->
         [target EXCEPT !.targetValue = value1, !.metadata.comparison = "approximately"]
    [] OTHER -> [target EXCEPT !.targetValue = value1]

\* the switch on match.comparison
assignValues(target, comparison, value1, value2) ==
  CASE comparison = "range" ->
         [target EXCEPT !.targetMin = value1, !.targetMax = value2,
                        !.targetValue = IF value1.def /\ value2.def
                                        THEN Number(midpoint(value1, value2)) ELSE @]
    [] comparison = "above" ->
         [target EXCEPT !.targetMin = value1, !.targetValue = value1,
                        !.metadata.comparison = "above"]
    [] comparison = "below" ->
         [target EXCEPT !.targetMax = value1, !.targetValue = value1,
                        !.metadata.comparison = "below"]
    [] comparison = "approximately" ->
         [target EXCEPT !.targetValue = value1, !.metadata.comparison = "approximately"]
    [] OTHER -> [target EXCEPT !.targetValue = value1]

\* the period of the clause, completed from the sentence when the clause has none
periodOf(period, sentPeriod) ==
  IF ~truthy(period.startYear) /\ ~truthy(period.endYear)
  THEN [startYear |-> IF truthy(sentPeriod.startYear) THEN sentPeriod.startYear
                      ELSE period.startYear,
        endYear |-> IF truthy(sentPeriod.endYear) THEN sentPeriod.endYear
                    ELSE period.endYear]
  ELSE period
unitOf(detected, unitHint) ==
  IF ~detected.null THEN detected
  ELSE IF ~unitHint.null THEN normalizeUnit(unitHint.v) ELSE Null
\* the year of the sentence first, that of the clause when it has none
yearFor_sentenceFirst(year, sentenceYear) ==
  IF truthy(sentenceYear) THEN sentenceYear ELSE year

yearFor(year, sentenceYear) == IF truthy(year) THEN year ELSE sentenceYear
newTarget(name, unit, clause) ==
  [targetType |-> "QUANTITATIVE", nameVi |-> name, unit |-> unit, rawTextVi |-> trim(clause),
   targetValue |-> NoNumber, targetMin |-> NoNumber, targetMax |-> NoNumber,
   targetYear |-> NoYear,
   metadata |-> [comparison |-> "none", period |-> NoPeriod]]
withYear(target, year) == IF truthy(year) THEN [target EXCEPT !.targetYear = year] ELSE target
withPeriod(target, period) ==
  IF truthy(period.startYear) \/ truthy(period.endYear)
  THEN [target EXCEPT !.metadata.period = period] ELSE target

\* the target built from one match of a clause (the body of the innermost
\* loop), given what was extracted from the clause and from the sentence
targetFrom(ofClause, ofSentence, clause, match, value1, value2) ==
  withPeriod(
    withYear(
      assignValues(newTarget(ofClause.name, unitOf(ofClause.unit, match.unitHint), clause),
                   match.comparison, value1, value2),
      yearFor(ofClause.year, ofSentence.year)),
    periodOf(ofClause.period, ofSentence.period))
factsOfEach(texts) == [k \in DOMAIN texts |-> facts(texts[k])]
targetGiven(extracted, clause, match, value1, value2) ==
  targetFrom(extracted[1], extracted[2], clause, match, value1, value2)
targetOf(sentence, clause, match, value1, value2) ==
  targetGiven(factsOfEach(<<clause, sentence>>), clause, match, value1, value2)

\* the targets pushed for the matches of one clause, and their matches
RECURSIVE targetsOf(_, _, _)
secondValue(valueStr2) == IF valueStr2 # <<>> THEN parseInlineNumber(valueStr2) ELSE NoNumber
pushed(sentence, clause, match, value1, value2, others) ==
  IF skipsMatch(value1, value2) THEN others
  ELSE [targets |-> <<targetOf(sentence, clause, match, value1, value2)>> \o others.targets,
        origins |-> <<match>> \o others.origins]
targetsOf(sentence, clause, matches) ==
  IF matches = <<>> THEN [targets |-> <<>>, origins |-> <<>>]
  ELSE pushed(sentence, clause, Head(matches), parseInlineNumber(Head(matches).valueStr),
              secondValue(Head(matches).valueStr2), targetsOf(sentence, clause, Tail(matches)))

\* the deduplication key with the name alone
dedupKey_nameOnly(t) == t.nameVi

\* the deduplication key of a target: its fields joined by "|", an undefined
\* field printed as the empty string
dedupKey(t) ==
  LET shown(n) == IF n.def THEN numberToString(n) ELSE <<>>
  IN t.nameVi \o <<"|">> \o shown(t.targetValue) \o <<"|">>
     \o (IF t.unit.null THEN <<>> ELSE t.unit.v) \o <<"|">>
     \o shown(t.targetMin) \o <<"|">> \o shown(t.targetMax)

\* deduplicateTargets
RECURSIVE dedupLoop(_, _, _)
dedupLoop(ts, seen, result) ==
  IF ts = <<>> THEN result
  ELSE IF dedupKey(Head(ts)) \in seen THEN dedupLoop(Tail(ts), seen, result)
  ELSE dedupLoop(Tail(ts), seen \cup {dedupKey(Head(ts))}, Append(result, Head(ts)))
deduplicateTargets(ts) == dedupLoop(ts, {}, <<>>)

\* extractTargetsRuleBased as a function of the text and of the lastIndex
\* values li the patterns have when it is called
RECURSIVE clauseLoop(_, _, _)
nextClause(pairs, ts, found) ==
  clauseLoop(Tail(pairs), found.lastIndex,
             ts \o targetsOf(Head(pairs)[1], Head(pairs)[2], found.results).targets)
clauseLoop(pairs, li, ts) ==
  IF pairs = <<>> THEN ts ELSE nextClause(pairs, ts, findKpiMatches(Head(pairs)[2], li))
extractTargetsRuleBased(text, li) ==
  deduplicateTargets(clauseLoop(clausesOf(splitSentences(text)), li, <<>>))

\* one round of the loop over the clauses: the lastIndex values it leaves and
\* the targets it pushes, evaluated once for the clauses of the sample lines
outcomeOf(pair, found) ==
  [lastIndex |-> found.lastIndex, built |-> targetsOf(pair[1], pair[2], found.results),
   results |-> found.results]
clauseOutcome(pair, li) == outcomeOf(pair, findKpiMatches(pair[2], li))
samplePairs == UNION {SeqToSet(clausesOf(splitSentences(l))) : l \in TargetLines}
sampleOutcomes == [pair \in samplePairs |-> clauseOutcome(pair, FreshLastIndex)]
cachedWhen(fresh, table, key, value) == IF fresh /\ key \in DOMAIN table THEN table[key] ELSE value

NoScan == [sentence |-> <<>>, clause |-> <<>>, results |-> <<>>, targets |-> <<>>]
TargetIdle ==
  /\ draft = <<>> /\ tpc = "idle" /\ ruleInput = <<>> /\ pending = <<>> /\ targets = <<>> /\ origins = <<>>
  /\ returned = <<>> /\ lastIndex = FreshLastIndex /\ calls = 0 /\ scan = NoScan

\* The texts given to extractTargetsRuleBased: at most MaxTextLines sample
\* lines, joined by newlines: any sample line, then lines of FollowLines.  The caller puts the next text together line by
\* line; the results of the call before are dropped when it starts doing so.
MaxTextLines == 2
\* and at most MaxCalls calls are made, one after the other
MaxCalls == 3
DraftLine(line) ==
  /\ tpc \in {"idle", "done"}
  /\ IF tpc = "done" THEN draft' = <<line>>
     ELSE /\ Len(draft) < MaxTextLines
          /\ draft = <<>> \/ line \in FollowLines
          /\ draft' = Append(draft, line)
  /\ tpc' = "idle"
  /\ ruleInput' = <<>> /\ pending' = <<>> /\ targets' = <<>> /\ origins' = <<>>
  /\ returned' = <<>> /\ scan' = NoScan
  /\ UNCHANGED <<lastIndex, calls>>
  /\ UNCHANGED nonTargetVars

\* extractTargetsRuleBased is called: the text is split into sentences and clauses
RuleStart ==
  /\ tpc = "idle" /\ calls < MaxCalls
  /\ ruleInput' = joinLines(draft)
  /\ pending' = clausesOf(splitSentences(ruleInput'))
  /\ targets' = <<>> /\ origins' = <<>> /\ returned' = <<>> /\ scan' = NoScan
  /\ draft' = <<>>
  /\ tpc' = "clauses"
  /\ calls' = calls + 1
  /\ UNCHANGED lastIndex
  /\ UNCHANGED nonTargetVars

\* one round of the loop over the clauses: the matches of the clause become targets
RuleClause ==
  /\ tpc = "clauses" /\ pending # <<>>
  /\ \E made \in {cachedWhen(lastIndex = FreshLastIndex, sampleOutcomes, Head(pending),
                              clauseOutcome(Head(pending), lastIndex))} :
       /\ lastIndex' = made.lastIndex
       /\ targets' = targets \o made.built.targets
       /\ origins' = origins \o made.built.origins
       /\ scan' = [sentence |-> Head(pending)[1], clause |-> Head(pending)[2],
                   results |-> made.results, targets |-> made.built.targets]
  /\ pending' = Tail(pending)
  /\ UNCHANGED <<draft, tpc, ruleInput, returned, calls>>
  /\ UNCHANGED nonTargetVars

\* the call returns the deduplicated targets
RuleReturn ==
  /\ tpc = "clauses" /\ pending = <<>>
  /\ returned' = deduplicateTargets(targets)
  /\ tpc' = "done"
  /\ UNCHANGED <<draft, ruleInput, pending, targets, origins, lastIndex, calls, scan>>
  /\ UNCHANGED nonTargetVars

-----------------------------------------------------------------------------
(* extract-targets: extractTargets and extractTargetsWithLLM *)

\* a flag that may be undefined
NoFlag == [def |-> FALSE, v |-> FALSE]
Flag(b) == [def |-> TRUE, v |-> b]
\* flag ?? b
orDefault(flag, b) == IF flag.def THEN flag.v ELSE b
\* a string that is neither undefined nor empty
isTruthy(str) == ~str.null /\ str.v # <<>>
\* a || b of two strings that may be undefined
orElse(a, b) == IF isTruthy(a) THEN a ELSE b

\* The Messages API answers with a status and a body.  The body is not JSON
\* ("invalid"), JSON without a content list ("other") or a message ("data")
\* whose content is a list of blocks; a text block carries a text, which is a
\* JSON document, possibly between markdown fences.  The JSON document is
\* malformed, a value that is not an array ("object"), or an array of items;
\* an item is an object with some of the fields of a target, or another value.
QUANTITATIVE == <<"Q","U","A","N","T","I","T","A","T","I","V","E">>
QUALITATIVE == <<"Q","U","A","L","I","T","A","T","I","V","E">>
MILESTONE == <<"M","I","L","E","S","T","O","N","E">>
\* a value of a field of an item: absent or null ("null"), a number, a string
\* that reads as a number ("numeral"), another string ("word") or an object
JsonNull == [kind |-> "null", n |-> Norm(0, 0), s |-> <<>>]
JsonNumber(m, d) == [kind |-> "number", n |-> Norm(m, d), s |-> <<>>]
JsonNumeral(m, d) == [kind |-> "numeral", n |-> Norm(m, d), s |-> numberToString(Norm(m, d))]
JsonText(s) == [kind |-> "word", n |-> Norm(0, 0), s |-> s]
JsonWord == JsonText(<<"n", "/", "a">>)
JsonRecord == [kind |-> "object", n |-> Norm(0, 0), s |-> <<>>]
jsonOf(str) == IF str.null THEN JsonNull ELSE JsonText(str.v)
ItemObject(targetType, nameVi, name_vi, targetValue, target_value) ==
  [kind |-> "object", targetType |-> jsonOf(targetType), nameVi |-> jsonOf(nameVi),
   name_vi |-> jsonOf(name_vi), targetValue |-> targetValue, target_value |-> target_value]
ItemOther == [kind |-> "other", targetType |-> JsonNull, nameVi |-> JsonNull,
              name_vi |-> JsonNull, targetValue |-> JsonNull, target_value |-> JsonNull]
JsonArray(items) == [kind |-> "array", items |-> items]
JsonObject == [kind |-> "object", items |-> <<>>]
JsonMalformed == [kind |-> "malformed", items |-> <<>>]
TextOf(fences, json) == [fences |-> fences, json |-> json]
\* the text '', which JSON.parse does not take either
EmptyString == TextOf("none", JsonMalformed)
NoText == [null |-> TRUE, v |-> EmptyString]
TextBlock(text) == [type |-> "text", text |-> [null |-> FALSE, v |-> text]]
EmptyTextBlock == [type |-> "text", text |-> [null |-> FALSE, v |-> EmptyString]]
BareTextBlock == [type |-> "text", text |-> NoText]
ToolBlock == [type |-> "tool_use", text |-> NoText]
BodyData(content) == [kind |-> "data", content |-> content]
BodyOther == [kind |-> "other", content |-> <<>>]
BodyInvalid == [kind |-> "invalid", content |-> <<>>]
NoResponse == [ok |-> FALSE, body |-> BodyInvalid]

\* raw.name of an item: a field the item does not have is undefined
fieldOf(raw, name) == IF name \in DOMAIN raw THEN raw[name] ELSE JsonNull
\* a value that counts as true: not null, not 0, not ''
isTruthyJson(val) ==
  CASE val.kind = "null" -> FALSE
    [] val.kind = "number" -> val.n.m # 0
    [] val.kind = "object" -> TRUE
    [] OTHER -> val.s # <<>>
\* a || b and a ?? b of two values
orJson(a, b) == IF isTruthyJson(a) THEN a ELSE b
orField(a, b) == IF a.kind # "null" THEN a ELSE b
\* String(val)
String(val) ==
  CASE val.kind = "null" -> <<"n", "u", "l", "l">>
    [] val.kind = "number" -> numberToString(val.n)
    [] val.kind = "object" -> <<"[", "o", "b", "j", "e", "c", "t", " ", "O", "b", "j", "e", "c", "t", "]">>
    [] OTHER -> val.s
\* val != null ? String(val) : undefined
stringOrUndefined(val) == IF val.kind # "null" THEN Str(String(val)) ELSE Null

\* toNumberOrUndefined: Number('') is 0, Number of another string that does
\* not read as a number, and of an object, is NaN
toNumberOrUndefined(val) ==
  IF val.kind \in {"number", "numeral"} THEN Number(val.n)
  ELSE IF val.kind = "word" /\ trim(val.s) = <<>> THEN Number(Norm(0, 0))
  ELSE NoNumber
\* toIntOrUndefined: parseInt(String(val), 10) reads an optional sign and the
\* digits that follow, after leading white space
intPrefix(str) ==
  IF str # <<>> /\ Head(str) \in {"-", "+"}
  THEN [neg |-> Head(str) = "-", digits |-> leadingDigits(Tail(str))]
  ELSE [neg |-> FALSE, digits |-> leadingDigits(str)]
intOf(prefix) ==
  IF prefix.digits = <<>> THEN NoNumber
  ELSE Number(Norm(IF prefix.neg THEN 0 - digitsValue(prefix.digits, 0)
                   ELSE digitsValue(prefix.digits, 0), 0))
toIntOrUndefined(val) ==
  IF val.kind = "null" THEN NoNumber ELSE intOf(intPrefix(trimStart(String(val))))

\* normalizeLlmTarget
validTypes == {QUANTITATIVE, QUALITATIVE, MILESTONE}
typeOf(rawType) == IF rawType \in validTypes THEN rawType ELSE QUANTITATIVE
normalizeLlmTarget(raw) ==
  [targetType |->
     typeOf(toUpperCase(String(orJson(fieldOf(raw, "targetType"), JsonText(QUANTITATIVE))))),
   nameVi |-> String(orJson(orJson(fieldOf(raw, "nameVi"), fieldOf(raw, "name_vi")),
                            JsonText(<<>>))),
   nameEn |-> stringOrUndefined(orField(fieldOf(raw, "nameEn"), fieldOf(raw, "name_en"))),
   unit |-> stringOrUndefined(fieldOf(raw, "unit")),
   targetValue |->
     toNumberOrUndefined(orField(fieldOf(raw, "targetValue"), fieldOf(raw, "target_value"))),
   targetYear |->
     toIntOrUndefined(orField(fieldOf(raw, "targetYear"), fieldOf(raw, "target_year"))),
   targetMin |->
     toNumberOrUndefined(orField(fieldOf(raw, "targetMin"), fieldOf(raw, "target_min"))),
   targetMax |->
     toNumberOrUndefined(orField(fieldOf(raw, "targetMax"), fieldOf(raw, "target_max"))),
   baselineValue |->
     toNumberOrUndefined(orField(fieldOf(raw, "baselineValue"), fieldOf(raw, "baseline_value"))),
   baselineYear |->
     toIntOrUndefined(orField(fieldOf(raw, "baselineYear"), fieldOf(raw, "baseline_year"))),
   rawTextVi |-> String(orJson(orJson(fieldOf(raw, "rawTextVi"), fieldOf(raw, "raw_text_vi")),
                               JsonText(<<>>))),
   metadata |-> fieldOf(raw, "metadata").kind = "object"]

\* rawTargets.filter(item is an object).map(normalizeLlmTarget)
RECURSIVE normalizeAll(_)
normalizeAll(items) ==
  IF items = <<>> THEN <<>>
  ELSE (IF Head(items).kind = "object" THEN <<normalizeLlmTarget(Head(items))>> ELSE <<>>)
       \o normalizeAll(Tail(items))

\* JSON.parse of the text with its fences stripped: the fences ("both",
\* "open" or "close") go when the text starts with one, so a closing fence
\* alone stays and breaks the parse
parseStripped(text) == IF text.fences = "close" THEN JsonMalformed ELSE text.json

\* data.content.find(block => block.type === 'text')
RECURSIVE findTextBlock(_)
findTextBlock(content) ==
  IF content = <<>> THEN NoText
  ELSE IF Head(content).type = "text" THEN Head(content).text
  ELSE findTextBlock(Tail(content))

Thrown(error) == [error |-> error, targets |-> <<>>]
fromJson(json) ==
  IF json.kind = "malformed" THEN Thrown("Failed to parse Claude API response as JSON")
  ELSE IF json.kind # "array" THEN Thrown("Claude API response is not a JSON array")
  ELSE [error |-> "", targets |-> normalizeAll(json.items)]
fromTextBlock(text) ==
  IF text.null \/ text.v = EmptyString THEN Thrown("No text content in Claude API response")
  ELSE fromJson(parseStripped(text.v))
\* extractTargetsWithLLM once the response is there: what it throws, or the
\* targets it returns
fromResponse(resp) ==
  IF ~resp.ok THEN Thrown("Claude API error")
  ELSE IF resp.body.kind = "invalid" THEN Thrown("SyntaxError")
  ELSE IF resp.body.kind = "other" THEN Thrown("TypeError")
  ELSE fromTextBlock(findTextBlock(resp.body.content))

\* the text sent: contentVi, cut after maxChars characters
maxChars == 30000
truncatedText(text) ==
  IF Len(text) > maxChars
  THEN SubSeq(text, 1, maxChars)
       \o <<"\n","\n","[",".",".","."," ","t","e","x","t"," ","t","r","u","n","c","a","t","e","d"," ",".",".",".","]">>
  ELSE text

\* the catch of extractTargets that lets the error out
caught_rethrown(error) == "rejected"

\* the catch of extractTargets: the error is logged and the rule-based path is taken
caught(error) == "rule"

\* The sample calls and answers
SampleKey == <<"s","k">>
Keys == {Null, Str(<<>>), Str(SampleKey)}
ExtractTexts == {<<>>, TBelow, joinLines(<<TTwice, TUnparsed>>)}
SampleItems == <<ItemObject(Str(<<"q","u","a","l","i","t","a","t","i","v","e">>), Str(<<"G","D","P">>),
                            Null, JsonNumber(65, 1), JsonNull),
                 ItemOther,
                 ItemObject(Str(<<"G","O","A","L">>), Null, Str(<<"H","D","I">>), JsonWord,
                            JsonNumber(7, 0)),
                 ItemObject(Null, Str(<<>>), Null, JsonNull, JsonNumeral(42, 0))>>
Bodies == {BodyInvalid, BodyOther, BodyData(<<>>), BodyData(<<ToolBlock, EmptyTextBlock>>),
           BodyData(<<BareTextBlock>>),
           BodyData(<<TextBlock(TextOf("open", JsonArray(SampleItems)))>>),
           BodyData(<<TextBlock(TextOf("none", JsonMalformed))>>),
           BodyData(<<TextBlock(TextOf("none", JsonObject))>>),
           BodyData(<<TextBlock(TextOf("close", JsonArray(SampleItems)))>>),
           BodyData(<<ToolBlock, TextBlock(TextOf("both", JsonArray(SampleItems)))>>),
           BodyData(<<TextBlock(TextOf("none", JsonArray(<<>>)))>>),
           BodyData(<<TextBlock(TextOf("none", JsonArray(SampleItems)))>>)}

\* the clauses of the sample texts, evaluated once
sampleClauses == [t \in ExtractTexts |-> clausesOf(splitSentences(t))]

ExtractIdle ==
  /\ xpc = "idle" /\ xtext = <<>> /\ useLLM = NoFlag /\ apiKey = Null /\ envKey = Null
  /\ requests = <<>> /\ response = NoResponse /\ llmError = "" /\ resolvedWith = <<>>

\* useLLM is false or absent: the rule-based path
ExtractRuleOnly ==
  /\ xpc = "called" /\ ~orDefault(useLLM, FALSE)
  /\ xpc' = "rule"
  /\ UNCHANGED <<xtext, useLLM, apiKey, envKey, requests, response, llmError, resolvedWith>>
  /\ UNCHANGED <<targetVars, nonExtractVars>>

\* useLLM without a key: a warning, then the rule-based path
ExtractNoKey ==
  /\ xpc = "called" /\ orDefault(useLLM, FALSE) /\ ~isTruthy(orElse(apiKey, envKey))
  /\ xpc' = "rule"
  /\ UNCHANGED <<xtext, useLLM, apiKey, envKey, requests, response, llmError, resolvedWith>>
  /\ UNCHANGED <<targetVars, nonExtractVars>>

\* extractTargetsWithLLM up to its fetch, which sends the request
sendRequest(key) ==
  /\ isTruthy(orElse(key, envKey))
  /\ requests' = Append(requests, [key |-> orElse(key, envKey).v, text |-> truncatedText(xtext)])
  /\ xpc' = "awaitFetch"
ExtractWithLLM ==
  /\ xpc = "called" /\ orDefault(useLLM, FALSE) /\ isTruthy(orElse(apiKey, envKey))
  /\ sendRequest(orElse(apiKey, envKey))
  /\ UNCHANGED <<xtext, useLLM, apiKey, envKey, response, llmError, resolvedWith>>
  /\ UNCHANGED <<targetVars, nonExtractVars>>

\* the service: fetch rejects (a transport error)
FetchRejects ==
  /\ xpc = "awaitFetch"
  /\ llmError' = "fetch failed"
  /\ xpc' = caught(llmError')
  /\ UNCHANGED <<xtext, useLLM, apiKey, envKey, requests, response, resolvedWith>>
  /\ UNCHANGED <<targetVars, nonExtractVars>>

\* the service: fetch resolves with the status line and the headers
FetchResolves(ok) ==
  /\ xpc = "awaitFetch"
  /\ response' = [ok |-> ok, body |-> BodyInvalid]
  /\ xpc' = "awaitBody"
  /\ UNCHANGED <<xtext, useLLM, apiKey, envKey, requests, llmError, resolvedWith>>
  /\ UNCHANGED <<targetVars, nonExtractVars>>

\* the service: the body read by response.text() or response.json() is there
BodyArrives(body) ==
  /\ xpc = "awaitBody"
  /\ response' = [response EXCEPT !.body = body]
  /\ xpc' = "responded"
  /\ UNCHANGED <<xtext, useLLM, apiKey, envKey, requests, llmError, resolvedWith>>
  /\ UNCHANGED <<targetVars, nonExtractVars>>

\* extractTargetsWithLLM throws, and extractTargets catches
LLMThrows ==
  /\ xpc = "responded"
  /\ \E result \in {fromResponse(response)} :
       /\ result.error # ""
       /\ llmError' = result.error
       /\ xpc' = caught(result.error)
  /\ UNCHANGED <<xtext, useLLM, apiKey, envKey, requests, response, resolvedWith>>
  /\ UNCHANGED <<targetVars, nonExtractVars>>

\* extractTargetsWithLLM returns, and so does extractTargets
LLMReturns ==
  /\ xpc = "responded"
  /\ \E result \in {fromResponse(response)} :
       /\ result.error = ""
       /\ resolvedWith' = result.targets
  /\ xpc' = "returned"
  /\ UNCHANGED <<xtext, useLLM, apiKey, envKey, requests, response, llmError>>
  /\ UNCHANGED <<targetVars, nonExtractVars>>

\* return extractTargetsRuleBased(contentVi): the call is made
ExtractRuleBased ==
  /\ xpc = "rule" /\ tpc \in {"idle", "done"}
  /\ ruleInput' = xtext
  /\ pending' = cached(sampleClauses, xtext, clausesOf(splitSentences(xtext)))
  /\ targets' = <<>> /\ origins' = <<>> /\ returned' = <<>> /\ scan' = NoScan
  /\ tpc' = "clauses"
  /\ calls' = calls + 1
  /\ xpc' = "ruleRunning"
  /\ UNCHANGED <<draft, lastIndex>>
  /\ UNCHANGED <<xtext, useLLM, apiKey, envKey, requests, response, llmError, resolvedWith>>
  /\ UNCHANGED nonExtractVars

\* return extractTargetsRuleBased(contentVi): its result is the result
ExtractReturn ==
  /\ xpc = "ruleRunning" /\ tpc = "done"
  /\ resolvedWith' = returned
  /\ xpc' = "returned"
  /\ UNCHANGED <<xtext, useLLM, apiKey, envKey, requests, response, llmError>>
  /\ UNCHANGED <<targetVars, nonExtractVars>>

-----------------------------------------------------------------------------
(* pipeline: runPipeline *)

MIN_TEXT_LENGTH == 500

\* A text is taken as its runs: a run of n characters that are no whitespace
\* and belong to no page marker ("word"), a run of n whitespace characters
\* ("space"), or a page marker "-- 1 of 43 --" of n characters ("marker").
Run(kind, n) == [kind |-> kind, n |-> n]
RECURSIVE rawLength(_)
rawLength(text) == IF text = <<>> THEN 0 ELSE Head(text).n + rawLength(Tail(text))

\* .replace(/--\s*\d+\s+of\s+\d+\s*--/g, ''): the page markers go
withoutMarkers(text) == SelectSeq(text, LAMBDA run : run.kind # "marker")
\* .replace(/\s+/g, ' '): every stretch of whitespace becomes one blank
RECURSIVE collapsed(_, _)
collapsed(text, afterSpace) ==
  IF text = <<>> THEN <<>>
  ELSE IF Head(text).kind # "space" THEN <<Head(text)>> \o collapsed(Tail(text), FALSE)
  ELSE IF afterSpace THEN collapsed(Tail(text), TRUE)
  ELSE <<Run("space", 1)>> \o collapsed(Tail(text), TRUE)
\* .trim() of a text whose runs of whitespace do not touch
trimmedRuns(text) ==
  IF text = <<>> THEN text
  ELSE IF Head(text).kind = "space" THEN
    (IF Len(text) > 1 /\ text[Len(text)].kind = "space"
     THEN SubSeq(text, 2, Len(text) - 1) ELSE Tail(text))
  ELSE IF text[Len(text)].kind = "space" THEN SubSeq(text, 1, Len(text) - 1)
  ELSE text
meaningfulTextLength(text) == rawLength(trimmedRuns(collapsed(withoutMarkers(text), FALSE)))

\* resolveFile, on the extension of the path and on what lies beside the file
DotPdf == <<".","p","d","f">>
DotDocx == <<".","d","o","c","x">>
DotDoc == <<".","d","o","c">>
resolveFile(path) ==
  IF toLowerCase(path.ext) \in {DotDocx, DotPdf} THEN path.ext
  ELSE IF toLowerCase(path.ext) = DotDoc THEN
    (IF path.pdfBeside THEN DotPdf ELSE IF path.docxBeside THEN DotDocx ELSE path.ext)
  ELSE path.ext
\* fs.existsSync(actualFile): a sibling resolveFile found is there
existsSync(path) == resolveFile(path) # path.ext \/ path.present

\* countSections
RECURSIVE countSections(_)
countSections(sections) ==
  IF sections = <<>> THEN 0
  ELSE 1 + countSections(Head(sections).children) + countSections(Tail(sections))

RECURSIVE collectLeafSections_withParents(_)
collectLeafSections_withParents(sections) ==
  IF sections = <<>> THEN <<>>
  ELSE (IF Len(trim(Head(sections).contentVi)) > 0 THEN <<Head(sections)>> ELSE <<>>)
       \o collectLeafSections_withParents(Head(sections).children)
       \o collectLeafSections_withParents(Tail(sections))

\* collectLeafSections
RECURSIVE collectLeafSections(_)
collectLeafSections(sections) ==
  IF sections = <<>> THEN <<>>
  ELSE (IF Head(sections).children = <<>> /\ Len(trim(Head(sections).contentVi)) > 0
        THEN <<Head(sections)>> ELSE <<>>)
       \o collectLeafSections(Head(sections).children)
       \o collectLeafSections(Tail(sections))

NoDoc == [null |-> TRUE, sections |-> <<>>]
Doc(sections) == [null |-> FALSE, sections |-> sections]
sectionsCountOf(doc) == IF doc.null THEN 0 ELSE countSections(doc.sections)

\* the result of a call
parseStatusOf(errs, sectionsCount) ==
  IF Len(errs) > 0 /\ sectionsCount = 0 THEN "FAILED" ELSE "COMPLETED"
NoResult == [documentId |-> "", sectionsCount |-> 0, targetsCount |-> 0, appendicesCount |-> 0,
             parseStatus |-> "", errors |-> <<>>, skipped |-> NoFlag, skipReason |-> ""]
Skipped(errs, reason) ==
  [documentId |-> "", sectionsCount |-> 0, targetsCount |-> 0, appendicesCount |-> 0,
   parseStatus |-> "FAILED", errors |-> Append(errs, reason), skipped |-> Flag(TRUE),
   skipReason |-> reason]
Finished(id, doc, targetsCount, appendicesCount, errs) ==
  [documentId |-> id, sectionsCount |-> sectionsCountOf(doc), targetsCount |-> targetsCount,
   appendicesCount |-> appendicesCount, parseStatus |-> parseStatusOf(errs, sectionsCountOf(doc)),
   errors |-> errs, skipped |-> NoFlag, skipReason |-> ""]

\* the OCR fallback with no regard for the kind of file
needsOcr_anyFile(meaningfulLen, ext) == meaningfulLen < MIN_TEXT_LENGTH

\* the OCR fallback is tried when the text is too short and the file is a PDF
needsOcr(meaningfulLen, ext) == meaningfulLen < MIN_TEXT_LENGTH /\ ext = DotPdf

\* The sample calls, and what the collaborators answer
MarkerLength == 13
RECURSIVE Pages(_)
Pages(n) == IF n = 0 THEN <<>> ELSE <<Run("marker", MarkerLength), Run("space", 1)>> \o Pages(n - 1)
Scanned == Pages(40)
Padded(n) == <<Run("space", 3), Run("word", 250), Run("space", 5), Run("marker", MarkerLength),
               Run("space", 2), Run("word", n), Run("space", 2)>>
PlainTexts == {<<>>, Scanned, <<Run("word", 499)>>, <<Run("word", 500)>>, Padded(248), Padded(249)}
OcrTexts == {<<>>, <<Run("word", 499)>>, Padded(249)}
HtmlTexts == {<<>>, <<Run("word", 20)>>}
FilePaths == {[ext |-> ext, pdfBeside |-> FALSE, docxBeside |-> FALSE, present |-> present] :
                ext \in {DotPdf, <<".","P","D","F">>, DotDocx, <<".","t","x","t">>},
                present \in BOOLEAN}
             \cup {[ext |-> DotDoc, pdfBeside |-> pdf, docxBeside |-> docx, present |-> TRUE] :
                     pdf, docx \in BOOLEAN}
\* The documents parseStructure returns: trees whose sortOrder counts the
\* sections in pre-order from 0, as parseStructure numbers them.
Sec(level, sectionNumber, titleVi, contentVi, sortOrder, children) ==
  [level |-> level, sectionNumber |-> sectionNumber, titleVi |-> titleVi,
   contentVi |-> contentVi, sortOrder |-> sortOrder, children |-> children]
DocBlank == Doc(<<Sec("DIEU", <<"1">>, Str(<<"A">>), <<" ">>, 0, <<>>)>>)
DocNested ==
  Doc(<<Sec("DIEU", <<"1">>, Str(<<"A">>), <<"a">>, 0,
            <<Sec("ARABIC", <<"1">>, Str(<<"B">>), TBelow, 1, <<>>),
              Sec("ARABIC", <<"2">>, Str(TAbove), <<>>, 2, <<>>)>>),
        Sec("DIEU", <<"2">>, Str(<<"C">>), TExact, 3, <<>>)>>)
DocRepeated ==
  Doc(<<Sec("ROMAN", <<"I">>, Str(<<"A">>), <<>>, 0,
            <<Sec("ARABIC", <<"1">>, Str(<<"B">>), <<>>, 1,
                  <<Sec("DASH", <<>>, Null, TExact, 2, <<>>)>>),
              Sec("ARABIC", <<"2">>, Str(<<"C">>), TRange, 3, <<>>)>>),
        Sec("ROMAN", <<"I">>, Str(<<"D">>), <<>>, 4,
            <<Sec("ARABIC", <<"2">>, Str(<<"E">>), TBelow, 5, <<>>)>>)>>)
SampleDocs == {Doc(<<>>), DocBlank, DocNested, DocRepeated}

sectionKey_withoutSortOrder(section) == <<section.level>> \o <<":">> \o section.sectionNumber

\* the key of a section: level:sectionNumber:sortOrder
sectionKey(section) ==
  <<section.level>> \o <<":">> \o section.sectionNumber \o <<":">> \o digitsOf(section.sortOrder)
\* Map.prototype.set
mapSet(map, key, value) == [k \in DOMAIN map \cup {key} |-> IF k = key THEN value ELSE map[k]]
EmptyMap == [k \in {} |-> 0]
\* prepareSectionRecords: the keys of idMap, one per section of the tree
RECURSIVE idMapKeys(_)
idMapKeys(sections) ==
  IF sections = <<>> THEN {}
  ELSE {sectionKey(Head(sections))} \cup idMapKeys(Head(sections).children)
       \cup idMapKeys(Tail(sections))
\* the loop that builds targetRecords: the targets of the keys that have a section id
RECURSIVE sumOver(_, _)
sumOver(map, keys) ==
  IF keys = {} THEN 0
  ELSE LET key == CHOOSE k \in keys : TRUE IN map[key] + sumOver(map, keys \ {key})
recordsBuilt(map, idMap) == sumOver(map, DOMAIN map \cap idMap)
NoStored == [id |-> "", parseStatus |-> ""]
Stored(id, status) == [id |-> id, parseStatus |-> status]
MaxLeafTargets == 2
MaxAppendices == 1

PipeIdle ==
  /\ rpc = "idle" /\ filePath = [ext |-> <<>>, pdfBeside |-> FALSE, docxBeside |-> FALSE, present |-> FALSE]
  /\ dryRun = NoFlag /\ actualFile = <<>> /\ rawText = <<>> /\ plainText = <<>> /\ htmlText = <<>>
  /\ errors = <<>> /\ raised = <<>> /\ stagesRun = <<>> /\ ocrCalls = 0 /\ parsedDoc = NoDoc
  /\ leaves = <<>> /\ totalTargets = 0 /\ appendices = 0 /\ documentId = "" /\ outcome = NoResult
  /\ extractCalls = <<>> /\ targetsBySectionKey = EmptyMap /\ sectionIdMap = {}
  /\ targetRecords = 0 /\ store = NoStored

\* Step 0: the file is resolved; the call ends here when it is not there
PipeResolve ==
  /\ rpc = "called"
  /\ actualFile' = resolveFile(filePath)
  /\ IF existsSync(filePath)
     THEN rpc' = "extractText" /\ stagesRun' = Append(stagesRun, "extractText")
          /\ UNCHANGED outcome
     ELSE rpc' = "returned" /\ outcome' = Skipped(<<>>, "File not found")
          /\ UNCHANGED stagesRun
  /\ UNCHANGED <<filePath, dryRun, rawText, plainText, htmlText, errors, raised, ocrCalls,
                 parsedDoc, leaves, totalTargets, appendices, documentId>>
  /\ UNCHANGED <<extractCalls, targetsBySectionKey, sectionIdMap, targetRecords, store>>
  /\ UNCHANGED nonPipeVars

\* what follows the plain text: the HTML extraction of a DOC or DOCX, or the
\* check of the length, which calls the OCR, ends the call or goes on to parse
afterGate(text, errs) ==
  IF meaningfulTextLength(text) < MIN_TEXT_LENGTH
  THEN /\ rpc' = "returned"
       /\ outcome' = Skipped(errs, "Extracted text too short")
       /\ UNCHANGED stagesRun
  ELSE /\ rpc' = "parseStructure"
       /\ stagesRun' = Append(stagesRun, "parseStructure")
       /\ UNCHANGED outcome
gate(text, errs, ext) ==
  IF needsOcr(meaningfulTextLength(text), ext)
  THEN /\ rpc' = "ocr"
       /\ ocrCalls' = ocrCalls + 1
       /\ stagesRun' = Append(stagesRun, "extractPdfTextWithOcr")
       /\ UNCHANGED outcome
  ELSE afterGate(text, errs) /\ UNCHANGED ocrCalls
afterText(text, errs, ext) ==
  IF ext \in {DotDoc, DotDocx}
  THEN /\ rpc' = "extractHtml"
       /\ stagesRun' = Append(stagesRun, "extractTextWithHtml")
       /\ UNCHANGED <<ocrCalls, outcome>>
  ELSE gate(text, errs, ext)

\* Step 1: extractText returns
ExtractTextReturns(text) ==
  /\ rpc = "extractText"
  /\ rawText' = text /\ plainText' = text
  /\ afterText(text, errors, toLowerCase(actualFile))
  /\ UNCHANGED <<filePath, dryRun, actualFile, htmlText, errors, raised, parsedDoc, leaves,
                 totalTargets, appendices, documentId>>
  /\ UNCHANGED <<extractCalls, targetsBySectionKey, sectionIdMap, targetRecords, store>>
  /\ UNCHANGED nonPipeVars

\* Step 1: extractText throws
ExtractTextThrows ==
  /\ rpc = "extractText"
  /\ errors' = Append(errors, "Text extraction failed")
  /\ raised' = Append(raised, "extractText")
  /\ afterText(rawText, errors', toLowerCase(actualFile))
  /\ UNCHANGED <<filePath, dryRun, actualFile, rawText, plainText, htmlText, parsedDoc, leaves,
                 totalTargets, appendices, documentId>>
  /\ UNCHANGED <<extractCalls, targetsBySectionKey, sectionIdMap, targetRecords, store>>
  /\ UNCHANGED nonPipeVars

\* Step 1: extractTextWithHtml returns
HtmlReturns(html) ==
  /\ rpc = "extractHtml"
  /\ htmlText' = html
  /\ gate(rawText, errors, toLowerCase(actualFile))
  /\ UNCHANGED <<filePath, dryRun, actualFile, rawText, plainText, errors, raised, parsedDoc,
                 leaves, totalTargets, appendices, documentId>>
  /\ UNCHANGED <<extractCalls, targetsBySectionKey, sectionIdMap, targetRecords, store>>
  /\ UNCHANGED nonPipeVars

\* Step 1: extractTextWithHtml throws, which is a warning on the console
HtmlThrows ==
  /\ rpc = "extractHtml"
  /\ raised' = Append(raised, "extractTextWithHtml")
  /\ gate(rawText, errors, toLowerCase(actualFile))
  /\ UNCHANGED <<filePath, dryRun, actualFile, rawText, plainText, htmlText, errors, parsedDoc,
                 leaves, totalTargets, appendices, documentId>>
  /\ UNCHANGED <<extractCalls, targetsBySectionKey, sectionIdMap, targetRecords, store>>
  /\ UNCHANGED nonPipeVars

\* the OCR fallback returns
OcrReturns(text) ==
  /\ rpc = "ocr"
  /\ rawText' = text
  /\ errors' = Append(errors, "Used OCR fallback")
  /\ afterGate(text, errors')
  /\ UNCHANGED <<filePath, dryRun, actualFile, plainText, htmlText, raised, ocrCalls, parsedDoc,
                 leaves, totalTargets, appendices, documentId>>
  /\ UNCHANGED <<extractCalls, targetsBySectionKey, sectionIdMap, targetRecords, store>>
  /\ UNCHANGED nonPipeVars

\* the OCR fallback throws
OcrThrows ==
  /\ rpc = "ocr"
  /\ errors' = Append(errors, "OCR fallback failed")
  /\ raised' = Append(raised, "extractPdfTextWithOcr")
  /\ afterGate(rawText, errors')
  /\ UNCHANGED <<filePath, dryRun, actualFile, rawText, plainText, htmlText, ocrCalls, parsedDoc,
                 leaves, totalTargets, appendices, documentId>>
  /\ UNCHANGED <<extractCalls, targetsBySectionKey, sectionIdMap, targetRecords, store>>
  /\ UNCHANGED nonPipeVars

\* what follows the targets: Step 4, with the parser of the HTML when there is HTML
appendixParser == IF Len(htmlText) > 0 THEN "parseAppendicesFromHtml" ELSE "parseAppendices"
toAppendices(stages) ==
  /\ rpc' = "appendices"
  /\ stagesRun' = Append(stages, appendixParser)
\* Step 3: the next leaf, if there is one
toLeaves(found, stages) ==
  /\ leaves' = found
  /\ IF found # <<>>
     THEN rpc' = "leaves" /\ stagesRun' = Append(stages, "extractTargets")
     ELSE toAppendices(stages)

\* Step 2: parseStructure returns, and the leaves are collected
ParseStructureReturns(doc) ==
  /\ rpc = "parseStructure"
  /\ parsedDoc' = doc
  /\ toLeaves(collectLeafSections(doc.sections), Append(stagesRun, "collectLeafSections"))
  /\ UNCHANGED <<filePath, dryRun, actualFile, rawText, plainText, htmlText, errors, raised,
                 ocrCalls, totalTargets, appendices, documentId, outcome>>
  /\ UNCHANGED <<extractCalls, targetsBySectionKey, sectionIdMap, targetRecords, store>>
  /\ UNCHANGED nonPipeVars

\* Step 2: parseStructure throws, and Step 3 is skipped
ParseStructureThrows ==
  /\ rpc = "parseStructure"
  /\ errors' = Append(errors, "Structure parsing failed")
  /\ raised' = Append(raised, "parseStructure")
  /\ toAppendices(stagesRun)
  /\ UNCHANGED <<filePath, dryRun, actualFile, rawText, plainText, htmlText, ocrCalls, parsedDoc,
                 leaves, totalTargets, appendices, documentId, outcome>>
  /\ UNCHANGED <<extractCalls, targetsBySectionKey, sectionIdMap, targetRecords, store>>
  /\ UNCHANGED nonPipeVars

\* extractTargets(leaf.contentVi, ...): the call, as the history keeps it
extractCall(leaf) == [sortOrder |-> leaf.sortOrder, input |-> leaf.contentVi]
\* Step 3: extractTargets resolves with count targets for the leaf
LeafReturns(count) ==
  /\ rpc = "leaves"
  /\ extractCalls' = Append(extractCalls, extractCall(Head(leaves)))
  /\ totalTargets' = totalTargets + count
  /\ targetsBySectionKey' = IF count > 0
                            THEN mapSet(targetsBySectionKey, sectionKey(Head(leaves)), count)
                            ELSE targetsBySectionKey
  /\ UNCHANGED <<sectionIdMap, targetRecords, store>>
  /\ toLeaves(Tail(leaves), stagesRun)
  /\ UNCHANGED <<filePath, dryRun, actualFile, rawText, plainText, htmlText, errors, raised,
                 ocrCalls, parsedDoc, appendices, documentId, outcome>>
  /\ UNCHANGED nonPipeVars

\* Step 3: extractTargets rejects for the leaf
LeafThrows ==
  /\ rpc = "leaves"
  /\ extractCalls' = Append(extractCalls, extractCall(Head(leaves)))
  /\ UNCHANGED <<targetsBySectionKey, sectionIdMap, targetRecords, store>>
  /\ errors' = Append(errors, "Target extraction failed")
  /\ raised' = Append(raised, "extractTargets")
  /\ toLeaves(Tail(leaves), stagesRun)
  /\ UNCHANGED <<filePath, dryRun, actualFile, rawText, plainText, htmlText, ocrCalls, parsedDoc,
                 totalTargets, appendices, documentId, outcome>>
  /\ UNCHANGED nonPipeVars

\* Step 5: a dry run returns; otherwise the client of the database is made
toSave(count, errs) ==
  IF orDefault(dryRun, FALSE)
  THEN /\ rpc' = "returned"
       /\ outcome' = Finished("(dry-run)", parsedDoc, totalTargets, count, errs)
       /\ UNCHANGED stagesRun
  ELSE /\ rpc' = "client"
       /\ stagesRun' = Append(stagesRun, "persistence")
       /\ UNCHANGED outcome

\* Step 4: the parser of the appendices returns count appendices
AppendicesReturn(count) ==
  /\ rpc = "appendices"
  /\ appendices' = count
  /\ toSave(count, errors)
  /\ UNCHANGED <<filePath, dryRun, actualFile, rawText, plainText, htmlText, errors, raised,
                 ocrCalls, parsedDoc, leaves, totalTargets, documentId>>
  /\ UNCHANGED <<extractCalls, targetsBySectionKey, sectionIdMap, targetRecords, store>>
  /\ UNCHANGED nonPipeVars

\* Step 4: the parser of the appendices throws
AppendicesThrow ==
  /\ rpc = "appendices"
  /\ errors' = Append(errors, "Appendix parsing failed")
  /\ raised' = Append(raised, appendixParser)
  /\ toSave(appendices, errors')
  /\ UNCHANGED <<filePath, dryRun, actualFile, rawText, plainText, htmlText, ocrCalls, parsedDoc,
                 leaves, totalTargets, appendices, documentId>>
  /\ UNCHANGED <<extractCalls, targetsBySectionKey, sectionIdMap, targetRecords, store>>
  /\ UNCHANGED nonPipeVars

\* Step 5: new PrismaClient() returns
ClientMade ==
  /\ rpc = "client"
  /\ rpc' = "save"
  /\ UNCHANGED <<filePath, dryRun, actualFile, rawText, plainText, htmlText, errors, raised,
                 stagesRun, ocrCalls, parsedDoc, leaves, totalTargets, appendices, documentId,
                 outcome>>
  /\ UNCHANGED <<extractCalls, targetsBySectionKey, sectionIdMap, targetRecords, store>>
  /\ UNCHANGED nonPipeVars

\* Step 5: new PrismaClient() throws, outside every try
ClientThrows ==
  /\ rpc = "client"
  /\ raised' = Append(raised, "persistence")
  /\ rpc' = "rejected"
  /\ UNCHANGED <<filePath, dryRun, actualFile, rawText, plainText, htmlText, errors, stagesRun,
                 ocrCalls, parsedDoc, leaves, totalTargets, appendices, documentId, outcome>>
  /\ UNCHANGED <<extractCalls, targetsBySectionKey, sectionIdMap, targetRecords, store>>
  /\ UNCHANGED nonPipeVars

\* Step 5: the PlanDocument is created, IN_PROGRESS, and the sections with
\* the ids prepareSectionRecords gave them
SaveDocument ==
  /\ rpc = "save"
  /\ documentId' = "docId"
  /\ store' = Stored("docId", "IN_PROGRESS")
  /\ sectionIdMap' = IF ~parsedDoc.null /\ Len(parsedDoc.sections) > 0
                     THEN idMapKeys(parsedDoc.sections) ELSE {}
  /\ rpc' = "saveTargets"
  /\ UNCHANGED <<filePath, dryRun, actualFile, rawText, plainText, htmlText, errors, raised,
                 stagesRun, ocrCalls, parsedDoc, leaves, totalTargets, appendices, outcome,
                 extractCalls, targetsBySectionKey, targetRecords>>
  /\ UNCHANGED nonPipeVars

\* Step 5: the targets of the keys that have a section id are saved, then the
\* appendices, and the document is marked COMPLETED
SaveReturns ==
  /\ rpc = "saveTargets"
  /\ targetRecords' = recordsBuilt(targetsBySectionKey, sectionIdMap)
  /\ store' = Stored(documentId, "COMPLETED")
  /\ rpc' = "disconnect"
  /\ UNCHANGED <<filePath, dryRun, actualFile, rawText, plainText, htmlText, errors, raised,
                 stagesRun, ocrCalls, parsedDoc, leaves, totalTargets, appendices, documentId,
                 outcome, extractCalls, targetsBySectionKey, sectionIdMap>>
  /\ UNCHANGED nonPipeVars

\* Step 5: a call of the client throws: before the document has its id
\* (named = FALSE), in planDocument.create (named, and nothing created), or
\* after it.  The catch then deletes the document and forgets its id; when the
\* deletion throws it marks the document FAILED, and when that throws too it
\* gives up; in both cases the id is kept.  The target records were built
\* when the throw came after their loop.
SaveThrows(named, deleted) ==
  /\ rpc \in {"save", "saveTargets"}
  /\ rpc = "saveTargets" => named
  /\ errors' = Append(errors, "DB save failed")
  /\ raised' = Append(raised, "persistence")
  /\ documentId' = IF named /\ ~deleted THEN "docId" ELSE ""
  /\ \E marked \in BOOLEAN :
       store' = IF store = NoStored \/ deleted THEN NoStored
                ELSE IF marked THEN Stored(store.id, "FAILED") ELSE store
  /\ deleted => store # NoStored
  /\ rpc' = "disconnect"
  /\ targetRecords' \in {0} \cup (IF rpc = "saveTargets"
                                  THEN {recordsBuilt(targetsBySectionKey, sectionIdMap)}
                                  ELSE {})
  /\ UNCHANGED <<filePath, dryRun, actualFile, rawText, plainText, htmlText, stagesRun, ocrCalls,
                 parsedDoc, leaves, totalTargets, appendices, outcome, extractCalls,
                 targetsBySectionKey, sectionIdMap>>
  /\ UNCHANGED nonPipeVars

\* finally: prisma.$disconnect() resolves, and the call returns
DisconnectReturns ==
  /\ rpc = "disconnect"
  /\ outcome' = Finished(IF documentId # "" THEN documentId ELSE "(not saved)", parsedDoc,
                         totalTargets, appendices, errors)
  /\ rpc' = "returned"
  /\ UNCHANGED <<filePath, dryRun, actualFile, rawText, plainText, htmlText, errors, raised,
                 stagesRun, ocrCalls, parsedDoc, leaves, totalTargets, appendices, documentId>>
  /\ UNCHANGED <<extractCalls, targetsBySectionKey, sectionIdMap, targetRecords, store>>
  /\ UNCHANGED nonPipeVars

\* finally: prisma.$disconnect() rejects, and so does the call
DisconnectThrows ==
  /\ rpc = "disconnect"
  /\ raised' = Append(raised, "disconnect")
  /\ rpc' = "rejected"
  /\ UNCHANGED <<filePath, dryRun, actualFile, rawText, plainText, htmlText, errors, stagesRun,
                 ocrCalls, parsedDoc, leaves, totalTargets, appendices, documentId, outcome>>
  /\ UNCHANGED <<extractCalls, targetsBySectionKey, sectionIdMap, targetRecords, store>>
  /\ UNCHANGED nonPipeVars

-----------------------------------------------------------------------------
(* extract-targets: one call of parseVietnameseNumber *)

RECURSIVE concat(_)
concat(parts) == IF parts = <<>> THEN <<>> ELSE Head(parts) \o concat(Tail(parts))

\* The strings given to parseVietnameseNumber: the examples, and every string
\* put together from at most MaxNumberPieces of the pieces
NumberExamples == {<<"7",".","5","0","0">>, <<"6",",","5">>,
                   <<"1",".","2","3","4",",","5","6">>, <<"a","b","c">>, <<>>}
NumberPieces == {<<"-">>, <<".">>, <<",">>, <<"a">>, <<" ">>, <<"7">>, <<"5","6">>,
                 <<"1","2","3","4">>, <<".","5","0","0">>}
MaxNumberPieces == 4
\* (of at most 9 digits, which TLC's integers hold)
digitsIn(s) == Len(SelectSeq(s, LAMBDA c : c \in Digits))
NumberInputs ==
  NumberExamples
  \cup {s \in {concat(parts) : parts \in SeqsUpTo(NumberPieces, MaxNumberPieces)} : digitsIn(s) <= 9}

CallParseVietnameseNumber ==
  /\ fpc = "called"
  /\ output' = parseVietnameseNumber(input)
  /\ fpc' = "returned"
  /\ UNCHANGED input
  /\ UNCHANGED nonCallVars

-----------------------------------------------------------------------------
(* extract-text: the tables of an appendix in a plain-text document *)

\* a value of a row's data: the number a cell was converted to, or its text
CellText(s) == [number |-> NoNumber, text |-> s]
CellNumber(n) == [number |-> n, text |-> <<>>]
Row(rowNumber, data) == [rowNumber |-> rowNumber, data |-> data, sortOrder |-> rowNumber]
NoTable == [columns |-> <<>>, rows |-> <<>>]

\* /\s{2,}/
RE_GAP == Rep(Set(WhiteSpace), 2, -1, TRUE)
isLikelyTableRow(line) ==
  /\ trim(line) # <<>>
  /\ \/ includes(trim(line), <<"|">>)
     \/ includes(trim(line), <<"\t">>)
     \/ test(RE_GAP, trim(line))

\* /^[\s|+\-:=]+$/
RE_SEPARATOR == Cat(<<Bol, Plus(Set(WhiteSpace \cup {"|", "+", "-", ":", "="})), Eol>>)
isTableSeparator(line) == test(RE_SEPARATOR, trim(line)) /\ Len(trim(line)) > 2

\* cells.map((cell) => cell.trim())
trimEach(cells) == [k \in 1..Len(cells) |-> trim(cells[k])]
\* the filter of splitTableRow: an empty first and an empty last cell go
withoutEmptyEnds(arr) ==
  SubSeq(arr, IF arr[1] = <<>> THEN 2 ELSE 1,
              IF arr[Len(arr)] = <<>> THEN Len(arr) - 1 ELSE Len(arr))
splitTableRow(line) ==
  IF includes(trim(line), <<"|">>)
  THEN withoutEmptyEnds(trimEach(split(trim(line), Set({"|"}))))
  ELSE IF includes(trim(line), <<"\t">>)
  THEN trimEach(split(trim(line), Set({"\t"})))
  ELSE trimEach(split(trim(line), RE_GAP))

\* /^-?\d{1,3}(\.\d{3})*(,\d+)?$/
RE_VIETNAMESE_FORMAT ==
  Cat(<<Bol, Minus, Rep(D, 1, 3, TRUE), Star(Cat(<<Set({"."}), Rep(D, 3, 3, TRUE)>>)),
        Opt(Cat(<<Set({","}), Plus(D)>>)), Eol>>)
\* /^-?\d{1,3}(,\d{3})*(\.\d+)?$/
RE_INTERNATIONAL_FORMAT ==
  Cat(<<Bol, Minus, Rep(D, 1, 3, TRUE), Star(Cat(<<Set({","}), Rep(D, 3, 3, TRUE)>>)),
        Opt(Cat(<<Set({"."}), Plus(D)>>)), Eol>>)
\* s.replace(/,/g, "")
removeCommas(s) == SelectSeq(s, LAMBDA c : c # ",")
\* parseVietnameseNumber of extract-text.ts (the number of a table cell); the
\* patterns leave parseFloat nothing that is not a number
parseCellNumber(value) ==
  LET s == trim(value)
  IN IF s = <<>> THEN NoNumber
     ELSE IF test(RE_INTEGER, s) THEN Number(parseInt(s))
     ELSE IF test(RE_VIETNAMESE_FORMAT, s)
          THEN Number(parseFloat(replaceFirstChar(removeDots(s), ",", <<".">>)))
     ELSE IF test(RE_INTERNATIONAL_FORMAT, s) THEN Number(parseFloat(removeCommas(s)))
     ELSE NoNumber

\* Array.prototype.indexOf, 0-based
indexOf(arr, x) ==
  IF \E k \in 1..Len(arr) : arr[k] = x
  THEN Least({k \in 1..Len(arr) : arr[k] = x}) - 1 ELSE 0 - 1
columnName(n) == <<"C", "o", "l", "u", "m", "n", "_">> \o digitsOf(n)
extraName(n) == <<"E", "x", "t", "r", "a", "_">> \o digitsOf(n)
\* headerCells.map((h) => h || `Column_${headerCells.indexOf(h) + 1}`)
textColumns(headerCells) ==
  [k \in 1..Len(headerCells) |->
     IF headerCells[k] # <<>> THEN headerCells[k]
     ELSE columnName(indexOf(headerCells, headerCells[k]) + 1)]

\* the value stored for a cell: a number where the cell reads as one
cellValue(value) ==
  IF parseCellNumber(value).def THEN CellNumber(parseCellNumber(value)) ELSE CellText(value)
cellAt(cells, j) == IF j <= Len(cells) THEN cells[j] ELSE <<>>
Greatest(S) == CHOOSE j \in S : \A k \in S : j >= k
\* the keys of an object come out array indices first, in ascending order,
\* then the other keys in the order they were first written (the keys here
\* have at most nine digits)
isArrayIndex(key) ==
  /\ key # <<>> /\ Len(key) <= 9
  /\ \A k \in 1..Len(key) : key[k] \in Digits
  /\ (Len(key) > 1 => key[1] # "0")
RECURSIVE ascending(_)
ascending(indices) ==
  IF indices = {} THEN <<>>
  ELSE <<digitsOf(Least(indices))>> \o ascending(indices \ {Least(indices)})
RECURSIVE withoutRepeats(_, _)
withoutRepeats(keys, seen) ==
  IF keys = <<>> THEN <<>>
  ELSE IF Head(keys) \in seen THEN withoutRepeats(Tail(keys), seen)
  ELSE <<Head(keys)>> \o withoutRepeats(Tail(keys), seen \cup {Head(keys)})
writtenKeys(columns, cells) ==
  columns \o [j \in 1..(IF Len(cells) > Len(columns) THEN Len(cells) - Len(columns) ELSE 0) |->
                extraName(Len(columns) + j)]
ownKeys(written) ==
  ascending({digitsValue(written[k], 0) : k \in {j \in 1..Len(written) : isArrayIndex(written[j])}})
  \o withoutRepeats(SelectSeq(written, LAMBDA key : ~isArrayIndex(key)), {})
\* the data of a row: one key per column (a later column of the same name
\* overwrites an earlier one), then Extra_N for the cells past the columns
rowData(columns, cells) ==
  [keys |-> ownKeys(writtenKeys(columns, cells)),
   value |->
     [key \in SeqToSet(writtenKeys(columns, cells)) |->
        IF \E j \in (Len(columns) + 1)..Len(cells) : extraName(j) = key
        THEN CellText(cells[CHOOSE j \in (Len(columns) + 1)..Len(cells) : extraName(j) = key])
        ELSE cellValue(cellAt(cells, Greatest({j \in 1..Len(columns) : columns[j] = key})))]]

\* a line whose cells are all empty or separators gives no row
isSkippedCells(cells) ==
  cells = <<>> \/ \A k \in 1..Len(cells) : cells[k] = <<>> \/ isTableSeparator(cells[k])
\* the counter counts the lines
nextRowNumber_countsLines(rowNumber, isPushed) == rowNumber + 1

\* the row counter after a line: it counts the rows pushed
nextRowNumber(rowNumber, isPushed) == IF isPushed THEN rowNumber + 1 ELSE rowNumber
RECURSIVE textRows(_, _, _, _)
textRows(tableLines, columns, rowNumber, rows) ==
  IF tableLines = <<>> THEN rows
  ELSE IF isSkippedCells(splitTableRow(Head(tableLines)))
  THEN textRows(Tail(tableLines), columns, nextRowNumber(rowNumber, FALSE), rows)
  ELSE textRows(Tail(tableLines), columns, nextRowNumber(rowNumber, TRUE),
                Append(rows, Row(rowNumber, rowData(columns, splitTableRow(Head(tableLines))))))
isTableLine(trimmed) ==
  trimmed # <<>> /\ ~isTableSeparator(trimmed) /\ isLikelyTableRow(trimmed)
tableOf(tableLines) ==
  IF tableLines = <<>> THEN NoTable
  ELSE [columns |-> textColumns(splitTableRow(Head(tableLines))),
        rows |-> textRows(Tail(tableLines), textColumns(splitTableRow(Head(tableLines))),
                          1, <<>>)]
parseTextTable(ls) == tableOf(SelectSeq(trimEach(ls), isTableLine))


-----------------------------------------------------------------------------
(* extract-text: the type of an appendix *)

\* the letters of LowerVn and UpperVn without their marks (NFD, then the
\* combining marks removed); the d with a stroke does not decompose
LowerVnBase == <<"dd","a","a","a","a","a","a","a","a","a","a","a","a","a","a","a","a",
                 "a","e","e","e","e","e","e","e","e","e","e","e","i","i","i","i","i",
                 "o","o","o","o","o","o","o","o","o","o","o","o","o","o","o","o","o",
                 "u","u","u","u","u","u","u","u","u","u","u","y","y","y","y","y">>
UpperVnBase == <<"DD","A","A","A","A","A","A","A","A","A","A","A","A","A","A","A","A",
                 "A","E","E","E","E","E","E","E","E","E","E","E","I","I","I","I","I",
                 "O","O","O","O","O","O","O","O","O","O","O","O","O","O","O","O","O",
                 "U","U","U","U","U","U","U","U","U","U","U","Y","Y","Y","Y","Y">>
BaseOf == charMap(LowerVn \o UpperVn, LowerVnBase \o UpperVnBase)
removeDiacritics(text) == [k \in 1..Len(text) |-> mapped(text[k], BaseOf)]

\* the keyword groups, in the order of the source: the first match wins
TYPE_KEYWORDS ==
  <<[type |-> "MAP_LIST",
     keywords |-> <<<<"b","a","n"," ","d","o">>,
                    <<"b","a?","n"," ","dd","o^!">>>>],
    [type |-> "INDICATOR_TABLE",
     keywords |-> <<<<"c","h","i"," ","t","i","e","u">>,
                    <<"c","h","i?"," ","t","i","e^","u">>,
                    <<"c","h","i"," ","s","o">>,
                    <<"c","h","i?"," ","s","o^'">>>>],
    [type |-> "ROUTE_TABLE",
     keywords |-> <<<<"t","u","y","e","n">>,
                    <<"t","u","y","e^'","n">>,
                    <<"d","u","o","n","g">>,
                    <<"dd","u+","o+!","n","g">>>>],
    [type |-> "FACILITY_LIST",
     keywords |-> <<<<"c","o"," ","s","o">>,
                    <<"c","o+"," ","s","o+?">>,
                    <<"t","h","i","e","t"," ","c","h","e">>,
                    <<"t","h","i","e^'","t"," ","c","h","e^'">>>>],
    [type |-> "PROJECT_LIST",
     keywords |-> <<<<"d","u"," ","a","n">>,
                    <<"d","u+."," ","a'","n">>,
                    <<"d","a","n","h"," ","m","u","c">>,
                    <<"d","a","n","h"," ","m","u.","c">>>>]>>
normalise(text) == toLowerCase(removeDiacritics(text))
hasKeyword(normalised, keywords) ==
  \E k \in 1..Len(keywords) : includes(normalised, normalise(keywords[k]))
typeOfGroup(normalised, groups) ==
  IF groups = {} THEN "MIXED" ELSE TYPE_KEYWORDS[Least(groups)].type
firstGroup(normalised) ==
  typeOfGroup(normalised, {g \in 1..Len(TYPE_KEYWORDS) : hasKeyword(normalised, TYPE_KEYWORDS[g].keywords)})
classifyAppendixType(title, bodyHint) == firstGroup(normalise(title \o <<" ">> \o bodyHint))

-----------------------------------------------------------------------------
(* extract-text: parseAppendices, the appendices of a plain-text document *)

AsciiLetters == SeqToSet(LowerAscii) \cup SeqToSet(UpperAscii)
RomanLetters == {"I", "V", "X", "L", "C", "D", "M", "i", "v", "x", "l", "c", "d", "m"}
\* PH[UỤ]\s*L[UỤ]C with the flag i
RE_PHU_LUC ==
  Cat(<<CharI("P"), CharI("H"), Set({"U", "u", "U.", "u."}), S0,
        CharI("L"), Set({"U", "u", "U.", "u."}), CharI("C")>>)
\* (?:([IVXLCDM]+|[0-9]+|[A-Z])(?:\s*[.:]\s*|\s+))? with the flag i
RE_APPENDIX_ID ==
  Opt(Cat(<<Cap(2, Alt(<<Plus(Set(RomanLetters)), Plus(D), Set(AsciiLetters)>>)),
            Alt(<<Cat(<<S0, Set({".", ":"}), S0>>), S1>>)>>))
\* /(?:^|\n)\s*(PH[UỤ]\s*L[UỤ]C)\s*(?:...)?/gi
APPENDIX_HEADER_RE ==
  Cat(<<Alt(<<Bol, Set({"\n"})>>), S0, Cap(1, RE_PHU_LUC), S0, RE_APPENDIX_ID>>)

\* the matches of a pattern with the flag g, from position p on: each exec
\* starts where the match before it ended (no pattern here matches "")
RECURSIVE matchesFrom(_, _, _)
matchNext(re, s, m) == IF m.ok THEN <<m>> \o matchesFrom(re, s, m.e) ELSE <<>>
matchesFrom(re, s, p) == IF p > Len(s) + 1 THEN <<>> ELSE matchNext(re, s, execFrom(re, s, p))
allMatches(re, s) == matchesFrom(re, s, 1)

romanValue(c) ==
  CASE c = "I" -> 1 [] c = "V" -> 5 [] c = "X" -> 10 [] c = "L" -> 50
    [] c = "C" -> 100 [] c = "D" -> 500 [] c = "M" -> 1000 [] OTHER -> 0
RECURSIVE romanToInt(_)
romanToInt(roman) ==
  IF roman = <<>> THEN 0
  ELSE (IF Len(roman) > 1 /\ romanValue(roman[1]) < romanValue(roman[2])
        THEN 0 - romanValue(roman[1]) ELSE romanValue(roman[1]))
       + romanToInt(Tail(roman))

\* /^[IVXLCDM]+$/i
RE_ROMAN_ID == Cat(<<Bol, Plus(Set(RomanLetters)), Eol>>)
\* /^[A-Z]$/i
RE_LETTER_ID == Cat(<<Bol, Set(AsciiLetters), Eol>>)
\* an identifier that is absent (undefined) is the empty string here: both
\* take the fallback
parseAppendixNumber(id, fallback) ==
  IF id = <<>> THEN fallback
  ELSE IF leadingDigits(id) # <<>> THEN digitsValue(leadingDigits(id), 0)
  ELSE IF test(RE_ROMAN_ID, id) THEN romanToInt(toUpperCase(id))
  ELSE IF test(RE_LETTER_ID, id) THEN indexOf(UpperAscii, toUpperCase(id)[1]) + 1
  ELSE fallback

\* Array.prototype.join with a separator
RECURSIVE joinWith(_, _)
joinWith(parts, sep) ==
  IF parts = <<>> THEN <<>>
  ELSE IF Len(parts) = 1 THEN parts[1]
  ELSE parts[1] \o sep \o joinWith(Tail(parts), sep)
\* s.replace(/\s+/g, " ")
RECURSIVE collapseSpaces(_)
collapseSpaces(s) ==
  IF s = <<>> THEN <<>>
  ELSE IF Head(s) \in WhiteSpace
  THEN <<" ">> \o collapseSpaces(trimStart(s))
  ELSE <<Head(s)>> \o collapseSpaces(Tail(s))

\* /^\d|^\|/
RE_ROW_START == Cat(<<Bol, Set(Digits \cup {"|"})>>)
\* /\)$/
RE_CLOSING_PAREN == Cat(<<Set({")"}), Eol>>)
MaxTitleLines == 6
titleBlockOf(titleParts, idx) ==
  [titleVi |-> trim(collapseSpaces(joinWith(titleParts, <<" ">>))), endIdx |-> idx]
RECURSIVE titleFrom(_, _, _)
titleLine(ls, idx, titleParts, line) ==
  IF line = <<>> /\ titleParts # <<>> THEN titleBlockOf(titleParts, idx)
  ELSE IF titleParts # <<>> /\ isLikelyTableRow(line) /\ test(RE_ROW_START, line)
  THEN titleBlockOf(titleParts, idx)
  ELSE IF line = <<>> THEN titleFrom(ls, idx + 1, titleParts)
  ELSE IF test(RE_CLOSING_PAREN, line) \/ Len(titleParts) + 1 >= MaxTitleLines
  THEN titleBlockOf(Append(titleParts, line), idx + 1)
  ELSE titleFrom(ls, idx + 1, Append(titleParts, line))
titleFrom(ls, idx, titleParts) ==
  IF idx >= Len(ls) THEN titleBlockOf(titleParts, idx)
  ELSE titleLine(ls, idx, titleParts, trim(ls[idx + 1]))
extractTitleBlock(ls, startIdx) == titleFrom(ls, startIdx, <<>>)

\* `Phu luc ${appendixNumber}`
defaultTitle(appendixNumber) == <<"P", "h", "u", " ", "l", "u", "c", " ">> \o digitsOf(appendixNumber)
HintLines == 5
Appendix(appendixNumber, titleVi, appendixType, table, sortOrder) ==
  [appendixNumber |-> appendixNumber,
   titleVi |-> IF titleVi # <<>> THEN titleVi ELSE defaultTitle(appendixNumber),
   appendixType |-> appendixType,
   columns |-> table.columns, rows |-> table.rows, sortOrder |-> sortOrder]
\* the appendix of one header: the title block, then the table of the body
textAppendix(titleVi, bodyLines, id, mi) ==
  Appendix(parseAppendixNumber(id, mi), titleVi,
           classifyAppendixType(titleVi, joinWith(slice(bodyLines, 0, HintLines), <<" ">>)),
           parseTextTable(bodyLines), mi)
sectionAppendix(sectionLines, block, id, mi) ==
  textAppendix(block.titleVi, slice(sectionLines, block.endIdx, Len(sectionLines)), id, mi)
\* text.slice(from, to) with 1-based from and exclusive to
sectionOf(text, matches, mi) ==
  SubSeq(text, matches[mi].index,
         (IF mi < Len(matches) THEN matches[mi + 1].index ELSE Len(text) + 1) - 1)
appendixAt(text, matches, mi, sectionLines) ==
  sectionAppendix(sectionLines, extractTitleBlock(sectionLines, 1),
                  trim(group(text, matches[mi], 2)), mi)
appendicesOf(text, matches) ==
  [mi \in 1..Len(matches) |->
     appendixAt(text, matches, mi, split(sectionOf(text, matches, mi), Set({"\n"})))]
parseAppendices(text) == appendicesOf(text, allMatches(APPENDIX_HEADER_RE, text))

-----------------------------------------------------------------------------
(* extract-text: parseAppendicesFromHtml, the appendices of an HTML document. *)
(* A tag and an entity are one character token each: "<table>", "</td>",     *)
(* "&nbsp;"; the text between them is made of the characters above.          *)

BreakTags == {"<br>"}
Tags == {"<table>", "</table>", "<tr>", "</tr>", "<td>", "</td>", "<th>", "</th>",
         "<p>", "</p>"} \cup BreakTags
Entities == {"&nbsp;", "&amp;", "&lt;", "&gt;", "&quot;", "&#39;"}
entityChar(c) ==
  CASE c = "&nbsp;" -> " " [] c = "&amp;" -> "&" [] c = "&lt;" -> "<"
    [] c = "&gt;" -> ">" [] c = "&quot;" -> "\"" [] OTHER -> "'"
\* the replacements of stripHtmlTags up to the entities, character by character
RECURSIVE withoutTags(_)
withoutTags(html) ==
  IF html = <<>> THEN <<>>
  ELSE (IF Head(html) \in BreakTags THEN <<" ">>
        ELSE IF Head(html) \in Tags THEN <<>>
        ELSE IF Head(html) \in Entities THEN <<entityChar(Head(html))>>
        ELSE <<Head(html)>>) \o withoutTags(Tail(html))
stripHtmlTags(html) == trim(collapseSpaces(withoutTags(html)))

\* [\s\S]*?
LazyAny == LazyStar(NotSet({}))
\* /<tr[^>]*>([\s\S]*?)<\/tr>/gi
RE_HTML_ROW == Cat(<<Set({"<tr>"}), Cap(1, LazyAny), Set({"</tr>"})>>)
\* /<(?:td|th)[^>]*>([\s\S]*?)<\/(?:td|th)>/gi
RE_HTML_CELL == Cat(<<Set({"<td>", "<th>"}), Cap(1, LazyAny), Set({"</td>", "</th>"})>>)
\* /<table[^>]*>([\s\S]*?)<\/table>/gi
RE_HTML_TABLE == Cat(<<Set({"<table>"}), Cap(1, LazyAny), Set({"</table>"})>>)
\* group 1 of each match
groupsOf(s, matches) == [k \in 1..Len(matches) |-> group(s, matches[k], 1)]
cellsOf(rowHtml, matches) == [k \in 1..Len(matches) |-> stripHtmlTags(group(rowHtml, matches[k], 1))]
extractCells(rowHtml) == cellsOf(rowHtml, allMatches(RE_HTML_CELL, rowHtml))
\* /<th[\s>]/i
hasThTags(rowHtml) == \E k \in 1..Len(rowHtml) : rowHtml[k] = "<th>"

\* firstRowCells.map((h, i) => h || `Column_${i + 1}`), or every name generic
htmlColumns(firstRowCells, named) ==
  [k \in 1..Len(firstRowCells) |->
     IF named /\ firstRowCells[k] # <<>> THEN firstRowCells[k] ELSE columnName(k)]
isEmptyCells(cells) == cells = <<>> \/ \A k \in 1..Len(cells) : cells[k] = <<>>
RECURSIVE htmlRows(_, _, _, _)
htmlRows(rowMatches, columns, rowNumber, rows) ==
  IF rowMatches = <<>> THEN rows
  ELSE IF isEmptyCells(extractCells(Head(rowMatches)))
  THEN htmlRows(Tail(rowMatches), columns, nextRowNumber(rowNumber, FALSE), rows)
  ELSE htmlRows(Tail(rowMatches), columns, nextRowNumber(rowNumber, TRUE),
                Append(rows, Row(rowNumber, rowData(columns, extractCells(Head(rowMatches))))))
htmlTableOf(rowMatches) ==
  IF rowMatches = <<>> THEN NoTable
  ELSE IF hasThTags(rowMatches[1]) \/ Len(rowMatches) > 1
  THEN [columns |-> htmlColumns(extractCells(rowMatches[1]), TRUE),
        rows |-> htmlRows(Tail(rowMatches), htmlColumns(extractCells(rowMatches[1]), TRUE),
                          1, <<>>)]
  ELSE [columns |-> htmlColumns(extractCells(rowMatches[1]), FALSE),
        rows |-> htmlRows(rowMatches, htmlColumns(extractCells(rowMatches[1]), FALSE),
                          1, <<>>)]
parseHtmlTable(tableHtml) ==
  htmlTableOf(groupsOf(tableHtml, allMatches(RE_HTML_ROW, tableHtml)))

\* { ...row, rowNumber: row.rowNumber + offset, sortOrder: row.sortOrder + offset }
shifted(rows, offset) ==
  [k \in 1..Len(rows) |->
     [rows[k] EXCEPT !.rowNumber = @ + offset, !.sortOrder = @ + offset]]
\* the merge loop over the tables of a section
RECURSIVE mergeTables(_, _, _)
mergeTables(tables, mergedColumns, mergedRows) ==
  IF tables = <<>> THEN [columns |-> mergedColumns, rows |-> mergedRows]
  ELSE IF Len(mergedColumns) = 0
  THEN mergeTables(Tail(tables), Head(tables).columns, Head(tables).rows)
  ELSE IF Head(tables).columns = mergedColumns
  THEN mergeTables(Tail(tables), mergedColumns,
                   mergedRows \o shifted(Head(tables).rows, Len(mergedRows)))
  ELSE mergeTables(Tail(tables), mergedColumns,
                   mergedRows \o shifted(Head(tables).rows, Len(mergedRows)))

\* /PH[UỤ]\s*L[UỤ]C\s*(?:([IVXLCDM]+|[0-9]+|[A-Z])(?:\s*[.:]\s*|\s+))?/gi
RE_HTML_HEADER == Cat(<<RE_PHU_LUC, S0, RE_APPENDIX_ID>>)
\* /^PH[UỤ]\s*L[UỤ]C\s*(?:[IVXLCDM]+|[0-9]+|[A-Z])?\s*[.:]*\s*/i
RE_TITLE_HEADER ==
  Cat(<<Bol, RE_PHU_LUC, S0,
        Opt(Alt(<<Plus(Set(RomanLetters)), Plus(D), Set(AsciiLetters)>>)),
        S0, Star(Set({".", ":"})), S0>>)
TitleLimit == 2000
Min(a, b) == IF a < b THEN a ELSE b
\* the text of the title: from the header to the first table of the section
titleTextOf(titleHtml) ==
  trim(collapseSpaces(replace(stripHtmlTags(titleHtml), RE_TITLE_HEADER, <<>>)))

\* Object.values(r.data).join(" "): a number prints as String(number)
valueString(v) == IF v.number.def THEN numberToString(v.number) ELSE v.text
valuesJoined(data) ==
  joinWith([k \in 1..Len(data.keys) |-> valueString(data.value[data.keys[k]])], <<" ">>)
HintRows == 3
rowsHint(rows) == joinWith([k \in 1..Len(rows) |-> valuesJoined(rows[k].data)], <<" ">>)

htmlAppendix(titleText, merged, id, hi) ==
  Appendix(parseAppendixNumber(id, hi), titleText,
           classifyAppendixType(titleText, rowsHint(slice(merged.rows, 0, HintRows))),
           merged, hi)
parsedTables(html, sectionTables) ==
  [k \in 1..Len(sectionTables) |->
     parseHtmlTable(SubSeq(html, sectionTables[k].index, sectionTables[k].e - 1))]
\* the tables of a header, and the text from the header to the first of them
titleHtmlOf(html, header, nextHeaderIndex, sectionTables) ==
  SubSeq(html, header.index,
         Min(IF sectionTables # <<>> THEN sectionTables[1].index ELSE nextHeaderIndex,
             header.index + TitleLimit) - 1)
sectionAt(html, header, id, hi, nextHeaderIndex, sectionTables) ==
  htmlAppendix(titleTextOf(titleHtmlOf(html, header, nextHeaderIndex, sectionTables)),
               mergeTables(parsedTables(html, sectionTables), <<>>, <<>>), id, hi)
tablesBetween(tablePositions, from, to) ==
  SelectSeq(tablePositions, LAMBDA t : t.index > from /\ t.index < to)
nextIndex(html, headers, hi) ==
  IF hi < Len(headers) THEN headers[hi + 1].index ELSE Len(html) + 1
htmlAppendices(html, headers, tablePositions) ==
  [hi \in 1..Len(headers) |->
     sectionAt(html, headers[hi], trim(group(html, headers[hi], 2)), hi,
               nextIndex(html, headers, hi),
               tablesBetween(tablePositions, headers[hi].index, nextIndex(html, headers, hi)))]
parseAppendicesFromHtml(html) ==
  htmlAppendices(html, allMatches(RE_HTML_HEADER, html), allMatches(RE_HTML_TABLE, html))

-----------------------------------------------------------------------------
(* extract-text: the documents given to the two appendix parsers *)

\* the header line and the title line an appendix starts with
HeadProject == <<<<"P","H","U."," ","L","U.","C"," ","I">>, <<"D","A","N","H"," ","M","U.","C"," ","D","U+."," ","A'","N"," ","U+","U"," ","T","I","E^","N">>>>
HeadRoute == <<<<"P","H","U."," ","L","U.","C"," ","I","I",":"," ","D","A","N","H"," ","M","U.","C"," ","D","U+."," ","A'","N"," ","DD","U+","O+!","N","G"," ","B","O^.">>>>
HeadFacility == <<<<"P","h","u."," ","l","u.","c"," ","C",".">>, <<"D","A","N","H"," ","M","U.","C"," ","D","U+."," ","A'","N"," ","C","O+"," ","S","O+?"," ","H","A."," ","T","A^!","N","G">>, <<"(","K","e!","m"," ","t","h","e","o",")">>>>
HeadMap == <<<<"P","H","U."," ","L","U.","C">>, <<"B","A?","N"," ","DD","O^!"," ","Q","U","Y"," ","H","O","A.","C","H">>>>
HeadSummary == <<<<"P","H","U."," ","L","U.","C"," ","2">>, <<"B","I","E^?","U"," ","T","O^?","N","G"," ","H","O+.","P">>>>
HeadBare == <<<<"P","H","U."," ","L","U.","C">>>>
AppendixHeads == {HeadProject, HeadRoute, HeadFacility, HeadMap, HeadSummary, HeadBare}
\* the heads that every body is put under
BodyHeads == {HeadProject, HeadSummary, HeadBare}
\* the lines of the body of an appendix in a plain-text document
AppendixLines ==
  {<<"S","T","T"," ","|"," ","T","e^","n">>, <<"1"," ","|"," ","a">>, <<"|","-","-","-","|","-","-","-","|">>, <<"|"," ","|">>, <<"2"," "," ","b">>,
   <<"T","u","y","e^'","n"," ","x">>, <<>>}
MaxBodyLines == 3
AppendixBodies == {<<>>} \cup SeqsUpTo(AppendixLines, MaxBodyLines)
\* a table whose header line has two blank cells, and a row of four cells
BodyBlankHeaders ==
  <<<<>>, <<"|"," ","|"," ","|"," ","x"," ","|">>, <<"1"," ","|"," ","a"," ","|"," ","b"," ","|"," ","c">>>>
\* a document of one appendix, or of two with a line of the document before
AppendixTexts ==
  {joinLines(head \o body) : head \in BodyHeads, body \in AppendixBodies}
  \cup {joinLines(head \o body) :
          head \in AppendixHeads,
          body \in {<<>>, <<<<>>, <<"S","T","T"," ","|"," ","T","u","y","e^'","n">>, <<"1"," ","|"," ","a">>>>,
                    BodyBlankHeaders}}
  \cup {joinLines(<<<<"DD","i","e^!","u"," ","1","."," ","a">>>> \o head \o <<<<"1"," ","|"," ","a">>, <<"2"," ","|"," ","b">>>> \o next
                  \o <<<<"|"," ","x">>, <<"3"," ","|"," ","c"," ","|"," ","d">>>>) :
          head \in AppendixHeads, next \in AppendixHeads}

\* the same heads as paragraphs of an HTML document
paragraph(line) == <<"<p>">> \o line \o <<"</p>">>
paragraphs(ls) == concat([k \in 1..Len(ls) |-> paragraph(ls[k])])
\* the tables of an appendix in an HTML document
TableNamed == <<"<table>","<tr>","<th>","S","T","T","</th>","<th>","T","e^","n","</th>","</tr>","<tr>","<td>","1","</td>","<td>","a","</td>","</tr>","<tr>","<td>","</td>","<td>","&nbsp;","</td>","</tr>","<tr>","<td>","2","</td>","<td>","b","<br>","c","</td>","</tr>","</table>">>
TableContinued == <<"<table>","<tr>","<td>","S","T","T","</td>","<td>","T","e^","n","</td>","</tr>","<tr>","<td>","3","</td>","<td>","T","u","y","e^'","n"," ","d","</td>","</tr>","</table>">>
TableOther == <<"<table>","<tr>","<td>","T","e^","n","</td>","<td>","</td>","</tr>","<tr>","</tr>","<tr>","<td>","e","</td>","<td>","4","</td>","<td>","f","</td>","</tr>","</table>">>
TableNoHeader == <<"<table>","<tr>","</tr>","<tr>","<td>","g","</td>","</tr>","</table>">>
TableOneRow == <<"<table>","<tr>","<td>","h","</td>","<td>","5","</td>","</tr>","</table>">>
TableEmpty == <<"<table>","</table>">>
AppendixTables ==
  {TableNamed, TableContinued, TableOther, TableNoHeader, TableOneRow, TableEmpty}
MaxTables == 2
AppendixHtmls ==
  {paragraphs(head) \o concat(tables) :
     head \in AppendixHeads, tables \in {<<>>} \cup SeqsUpTo(AppendixTables, MaxTables)}
  \cup {paragraphs(<<<<"DD","i","e^!","u"," ","1","."," ","a">>>> \o head) \o first \o paragraphs(next) \o second :
          head \in AppendixHeads, next \in AppendixHeads,
          first \in AppendixTables, second \in AppendixTables}
AppendixInputs ==
  {[kind |-> "text", text |-> t] : t \in AppendixTexts}
  \cup {[kind |-> "html", text |-> h] : h \in AppendixHtmls}

CallParseAppendices ==
  /\ fpc = "called"
  /\ input.kind = "text"
  /\ output' = parseAppendices(input.text)
  /\ fpc' = "returned"
  /\ UNCHANGED <<input, nonCallVars>>

CallParseAppendicesFromHtml ==
  /\ fpc = "called"
  /\ input.kind = "html"
  /\ output' = parseAppendicesFromHtml(input.text)
  /\ fpc' = "returned"
  /\ UNCHANGED <<input, nonCallVars>>

-----------------------------------------------------------------------------
(* extract-targets: calls of normalizeLlmTarget on the same value under the *)
(* two names of a field                                                     *)

\* the fields of a target that an item may carry under two names
AliasFields ==
  {[camel |-> "targetType", snake |-> "target_type"],
   [camel |-> "nameVi", snake |-> "name_vi"],
   [camel |-> "nameEn", snake |-> "name_en"],
   [camel |-> "targetValue", snake |-> "target_value"],
   [camel |-> "targetYear", snake |-> "target_year"],
   [camel |-> "targetMin", snake |-> "target_min"],
   [camel |-> "targetMax", snake |-> "target_max"],
   [camel |-> "baselineValue", snake |-> "baseline_value"],
   [camel |-> "baselineYear", snake |-> "baseline_year"],
   [camel |-> "rawTextVi", snake |-> "raw_text_vi"]}
AliasValues ==
  {JsonNull, JsonNumber(0, 0), JsonNumber(65, 1), JsonNumeral(2030, 0), JsonText(<<>>),
   JsonText(<<"q", "u", "a", "l", "i", "t", "a", "t", "i", "v", "e">>), JsonText(MILESTONE),
   JsonText(<<"G", "O", "A", "L">>), JsonText(<<"2", "0", "3", "0", " ", "x">>), JsonRecord}
\* the other fields of the item: none, or a unit and metadata
BaseItems == {<<>>, [unit |-> JsonText(<<"%">>), metadata |-> JsonRecord]}
withField(raw, name, val) ==
  [f \in DOMAIN raw \cup {name} |-> IF f = name THEN val ELSE raw[f]]
\* an item with a value under the camelCase name, and its twin with the same
\* value under the snake_case name
NormalizeInputs ==
  {<<withField(base, a.camel, val), withField(base, a.snake, val)>> :
     a \in AliasFields, val \in AliasValues, base \in BaseItems}

CallNormalizeLlmTarget ==
  /\ fpc = "called"
  /\ Len(output) < Len(input)
  /\ output' = Append(output, normalizeLlmTarget(input[Len(output) + 1]))
  /\ fpc' = IF Len(output') = Len(input) THEN "returned" ELSE "called"
  /\ UNCHANGED <<input, nonCallVars>>

-----------------------------------------------------------------------------
(* batch-parse: main, one run of the batch parser *)

\* the manifests: each entry has the number of its document and its skip flag
MaxEntries == 2
Entry(number, skip) == [number |-> number, skip |-> skip]
DocumentNumbers == {"a", "b"}
Manifests ==
  {<<>>} \cup SeqsUpTo({Entry(number, skip) : number \in DocumentNumbers, skip \in BOOLEAN},
                      MaxEntries)
\* manifest.files.filter(f => !f.skip)
entriesOf(files) == SelectSeq(files, LAMBDA f : ~f.skip)

\* the results runPipeline resolves with: saved, failed in every stage, skipped
PipelineResults ==
  {Finished("docId", DocNested, 1, 0, <<>>),
   Finished("(not saved)", NoDoc, 0, 0, <<"Structure parsing failed", "Appendix parsing failed">>),
   Skipped(<<>>, "File not found")}
\* the result recorded for a document the database already has
ExistingResult ==
  [documentId |-> "(existing)", sectionsCount |-> 0, targetsCount |-> 0, appendicesCount |-> 0,
   parseStatus |-> "COMPLETED", errors |-> <<>>, skipped |-> Flag(TRUE),
   skipReason |-> "Already parsed with content in DB"]
\* the result recorded when runPipeline throws
FatalResult ==
  [documentId |-> "", sectionsCount |-> 0, targetsCount |-> 0, appendicesCount |-> 0,
   parseStatus |-> "FAILED", errors |-> <<"Fatal error">>, skipped |-> Flag(TRUE),
   skipReason |-> "Fatal error"]
BatchResult(entry, result) == [entry |-> entry, result |-> result]

\* results.filter(r => r.result.parseStatus === 'FAILED').length
failedCount(results) == Len(SelectSeq(results, LAMBDA r : r.result.parseStatus = "FAILED"))
\* results.filter(r => r.result.skipped).length
skippedCount(results) == Len(SelectSeq(results, LAMBDA r : orDefault(r.result.skipped, FALSE)))
\* if (failed.length > skippedResults.length) process.exit(1)
exitCodeOf(failed, skippedResults) == IF failed > skippedResults THEN 1 ELSE 0

\* the arguments are read, the manifest is loaded and the documents of the
\* database are listed (none in a dry run); without manifest, or when the
\* manifest cannot be read or the database cannot be asked, the process exits
\* with status 1
BatchLoad(loaded) ==
  /\ bpc = "load"
  /\ IF loaded
     THEN /\ completedDocs' = IF batchOptions.dryRun THEN {} ELSE existing
          /\ bpc' = "loop"
          /\ UNCHANGED exitCode
     ELSE /\ bpc' = "aborted"
          /\ exitCode' = 1
          /\ UNCHANGED completedDocs
  /\ UNCHANGED <<manifest, batchOptions, existing, entryIndex, batchResults>>
  /\ UNCHANGED nonBatchVars

nextEntry == entriesOf(manifest)[entryIndex + 1]
isAlreadyParsed(entry) ==
  ~batchOptions.dryRun /\ ~batchOptions.force /\ entry.number \in completedDocs
\* one round of the loop ends with the result pushed
recorded(result) ==
  /\ batchResults' = Append(batchResults, BatchResult(nextEntry, result))
  /\ entryIndex' = entryIndex + 1
  /\ UNCHANGED <<bpc, manifest, batchOptions, existing, completedDocs, exitCode>>
  /\ UNCHANGED nonBatchVars

\* the document is in the database with content: the entry is skipped
BatchSkipExisting ==
  /\ bpc = "loop" /\ entryIndex < Len(entriesOf(manifest))
  /\ isAlreadyParsed(nextEntry)
  /\ recorded(ExistingResult)

\* runPipeline resolves
BatchPipelineReturns(result) ==
  /\ bpc = "loop" /\ entryIndex < Len(entriesOf(manifest))
  /\ ~isAlreadyParsed(nextEntry)
  /\ recorded(result)

\* runPipeline throws
BatchPipelineThrows ==
  /\ bpc = "loop" /\ entryIndex < Len(entriesOf(manifest))
  /\ ~isAlreadyParsed(nextEntry)
  /\ recorded(FatalResult)

\* after the loop: the summary is printed and the process exits
BatchSummary ==
  /\ bpc = "loop" /\ entryIndex = Len(entriesOf(manifest))
  /\ exitCode' = exitCodeOf(failedCount(batchResults), skippedCount(batchResults))
  /\ bpc' = "exited"
  /\ UNCHANGED <<manifest, batchOptions, existing, completedDocs, entryIndex, batchResults>>
  /\ UNCHANGED nonBatchVars

-----------------------------------------------------------------------------
(* Specifications *)

InitParse ==
  /\ lines \in Docs
  /\ ppc = "start" /\ preambleEndIndex = 0 /\ signatureStartIndex = 0
  /\ lineNo = 0 /\ secs = <<>> /\ rootSections = <<>> /\ stack = <<>> /\ sortCounter = 0
  /\ preamble = <<>> /\ signatureBlock = <<>>
  /\ TargetIdle /\ ExtractIdle /\ PipeIdle /\ CallIdle /\ BatchIdle

NextParse == ParseStart \/ ParseBlank \/ ParseSection \/ ParseContinuation \/ ParseReturn

SpecParse == InitParse /\ [][NextParse]_vars

InitTargets == ParseIdle /\ TargetIdle /\ ExtractIdle /\ PipeIdle /\ CallIdle /\ BatchIdle

NextTargets == (\E line \in TargetLines : DraftLine(line)) \/ RuleStart \/ RuleClause \/ RuleReturn

SpecTargets == InitTargets /\ [][NextTargets]_vars

\* one call of extractTargets, with the service that answers it
InitExtract ==
  /\ ParseIdle /\ TargetIdle /\ PipeIdle /\ CallIdle /\ BatchIdle
  /\ xpc = "called"
  /\ xtext \in ExtractTexts
  /\ useLLM \in {NoFlag, Flag(FALSE), Flag(TRUE)}
  /\ apiKey \in Keys /\ envKey \in Keys
  /\ requests = <<>> /\ response = NoResponse /\ llmError = "" /\ resolvedWith = <<>>

ServiceStep ==
  FetchRejects \/ (\E ok \in BOOLEAN : FetchResolves(ok)) \/ (\E body \in Bodies : BodyArrives(body))

ProgramStep ==
  \/ ExtractRuleOnly \/ ExtractNoKey \/ ExtractWithLLM \/ LLMThrows \/ LLMReturns
  \/ ExtractRuleBased \/ RuleClause \/ RuleReturn \/ ExtractReturn

NextExtract == ProgramStep \/ ServiceStep

SpecExtract == InitExtract /\ [][NextExtract]_vars

\* the program takes the steps it can take; nothing makes the service answer
SpecExtractLive == SpecExtract /\ WF_vars(ProgramStep)

\* one call of runPipeline, with the collaborators that answer it
InitPipeline ==
  /\ ParseIdle /\ TargetIdle /\ ExtractIdle /\ CallIdle /\ BatchIdle
  /\ rpc = "called"
  /\ filePath \in FilePaths
  /\ dryRun \in {NoFlag, Flag(FALSE), Flag(TRUE)}
  /\ actualFile = <<>> /\ rawText = <<>> /\ plainText = <<>> /\ htmlText = <<>>
  /\ errors = <<>> /\ raised = <<>> /\ stagesRun = <<>> /\ ocrCalls = 0 /\ parsedDoc = NoDoc
  /\ leaves = <<>> /\ totalTargets = 0 /\ appendices = 0 /\ documentId = "" /\ outcome = NoResult
  /\ extractCalls = <<>> /\ targetsBySectionKey = EmptyMap /\ sectionIdMap = {}
  /\ targetRecords = 0 /\ store = NoStored

NextPipeline ==
  \/ PipeResolve
  \/ (\E text \in PlainTexts : ExtractTextReturns(text)) \/ ExtractTextThrows
  \/ (\E html \in HtmlTexts : HtmlReturns(html)) \/ HtmlThrows
  \/ (\E text \in OcrTexts : OcrReturns(text)) \/ OcrThrows
  \/ (\E doc \in SampleDocs : ParseStructureReturns(doc)) \/ ParseStructureThrows
  \/ (\E count \in 0..MaxLeafTargets : LeafReturns(count)) \/ LeafThrows
  \/ (\E count \in 0..MaxAppendices : AppendicesReturn(count)) \/ AppendicesThrow
  \/ ClientMade \/ ClientThrows
  \/ SaveDocument \/ SaveReturns
  \/ (\E named, deleted \in BOOLEAN : SaveThrows(named, deleted))
  \/ DisconnectReturns \/ DisconnectThrows

SpecPipeline == InitPipeline /\ [][NextPipeline]_vars

\* one call of parseVietnameseNumber
InitNumber ==
  /\ ParseIdle /\ TargetIdle /\ ExtractIdle /\ PipeIdle /\ BatchIdle
  /\ fpc = "called" /\ input \in NumberInputs /\ output = NoNumber

NextNumber == CallParseVietnameseNumber

SpecNumber == InitNumber /\ [][NextNumber]_vars

InitAppendix ==
  /\ ParseIdle /\ TargetIdle /\ ExtractIdle /\ PipeIdle /\ BatchIdle
  /\ fpc = "called"
  /\ input \in AppendixInputs
  /\ output = <<>>
NextAppendix == CallParseAppendices \/ CallParseAppendicesFromHtml
SpecAppendix == InitAppendix /\ [][NextAppendix]_vars

InitNormalize ==
  /\ ParseIdle /\ TargetIdle /\ ExtractIdle /\ PipeIdle /\ BatchIdle
  /\ fpc = "called"
  /\ input \in NormalizeInputs
  /\ output = <<>>
NextNormalize == CallNormalizeLlmTarget
SpecNormalize == InitNormalize /\ [][NextNormalize]_vars

InitBatch ==
  /\ ParseIdle /\ TargetIdle /\ ExtractIdle /\ PipeIdle /\ CallIdle
  /\ bpc = "load"
  /\ manifest \in Manifests
  /\ batchOptions \in [dryRun : BOOLEAN, force : BOOLEAN]
  /\ existing \in SUBSET DocumentNumbers
  /\ completedDocs = {} /\ entryIndex = 0 /\ batchResults = <<>> /\ exitCode = 0
NextBatch ==
  \/ (\E loaded \in BOOLEAN : BatchLoad(loaded))
  \/ BatchSkipExisting
  \/ (\E result \in PipelineResults : BatchPipelineReturns(result))
  \/ BatchPipelineThrows
  \/ BatchSummary
SpecBatch == InitBatch /\ [][NextBatch]_vars

-----------------------------------------------------------------------------
(* Claims about the batch parser *)

\* a document that was processed and ended FAILED without being skipped
endedFailed(r) == r.result.parseStatus = "FAILED" /\ ~orDefault(r.result.skipped, FALSE)

\* C30: the entries that the manifest does not skip are processed in order,
\* each gives exactly one result, whether runPipeline returns or throws, and
\* the process exits with a status other than 0 if and only if a processed
\* document ended FAILED without being skipped, however many documents were
\* skipped as already parsed.
C30_ExitStatusTellsFailure ==
  /\ bpc \in {"loop", "exited"} =>
       /\ Len(batchResults) = entryIndex
       /\ \A k \in 1..Len(batchResults) : batchResults[k].entry = entriesOf(manifest)[k]
  /\ bpc = "exited" =>
       /\ Len(batchResults) = Len(entriesOf(manifest))
       /\ exitCode # 0 <=> \E k \in 1..Len(batchResults) : endedFailed(batchResults[k])

-----------------------------------------------------------------------------
(* Claims about parseStructure *)

priorityOf(ref) == LEVEL_PRIORITY[secs[ref].level]

\* C1: every child is of a strictly deeper level than its parent, and at every
\* step of the body parse the stack of open sections is strictly increasing in
\* priority from bottom to top, so it never holds more than 5 sections.
C1_StackInvariant ==
  /\ \A p \in 1..Len(secs) : \A k \in 1..Len(secs[p].children) :
        priorityOf(secs[p].children[k]) > priorityOf(p)
  /\ \A k \in 1..(Len(stack) - 1) : priorityOf(stack[k]) < priorityOf(stack[k + 1])
  /\ Len(stack) <= 5

\* a returned tree in which a section was closed by a sibling, three levels down
C1_Witness ==
  /\ ppc = "done"
  /\ Len(stack) >= 4
  /\ \E p \in 1..Len(secs) : Len(secs[p].children) >= 2

\* the matches of the non-blank content lines, in source order
RECURSIVE sectionLinesOf(_, _, _)
sectionLinesOf(ls, from, to) ==
  IF from >= to THEN <<>>
  ELSE LET m == matchOf[ls[from + 1]]
       IN (IF Len(trimmedOf[ls[from + 1]]) # 0 /\ m.ok THEN <<m>> ELSE <<>>)
          \o sectionLinesOf(ls, from + 1, to)

\* how many times ref occurs as a root or as a child
RECURSIVE occurrencesIn(_, _)
occurrencesIn(refs, ref) ==
  IF refs = <<>> THEN 0
  ELSE (IF Head(refs) = ref THEN 1 ELSE 0) + occurrencesIn(Tail(refs), ref)
RECURSIVE parentsOf(_, _)
parentsOf(p, ref) ==
  IF p = 0 THEN occurrencesIn(rootSections, ref)
  ELSE occurrencesIn(secs[p].children, ref) + parentsOf(p - 1, ref)

\* C2: the pre-order flattening of the returned tree holds exactly one section
\* per non-blank content line that matches a section pattern, in source order,
\* with sortOrder 0, 1, ..., n-1 in that order, each section under one parent.
C2_FlattenIsSourceOrder ==
  ppc = "done" =>
    LET flat == flattenSections(rootSections, secs)
        found == sectionLinesOf(lines, preambleEndIndex, signatureStartIndex)
    IN /\ Len(flat) = Len(found)
       /\ Len(flat) = Len(secs)
       /\ \A k \in 1..Len(flat) :
            /\ secs[flat[k]].sortOrder = k - 1
            /\ secs[flat[k]].level = found[k].level
            /\ secs[flat[k]].sectionNumber = found[k].sectionNumber
            /\ parentsOf(Len(secs), flat[k]) = 1
       /\ \A j, k \in 1..Len(flat) : j # k => flat[j] # flat[k]

\* a returned tree with nested and sibling sections, whose document also has
\* lines that are not sections
C2_Witness ==
  /\ ppc = "done"
  /\ Len(secs) >= 3
  /\ Len(rootSections) < Len(secs)
  /\ signatureStartIndex - preambleEndIndex > Len(secs)
  /\ \E p \in 1..Len(secs) : Len(secs[p].children) >= 2


\* how many sections stay open when a section of priority p arrives: the
\* sections above are popped from the top while their priority is >= p
keptLength(stk, p) ==
  CHOOSE n \in 0..Len(stk) :
    /\ n = 0 \/ priorityOf(stk[n]) < p
    /\ \A m \in (n + 1)..Len(stk) : priorityOf(stk[m]) >= p
\* the most recently created section before r of a strictly outer level, or 0
outerBefore(ss, r) ==
  {j \in 1..(r - 1) : LEVEL_PRIORITY[ss[j].level] < LEVEL_PRIORITY[ss[r].level]}
nearestOuter(ss, r) ==
  IF outerBefore(ss, r) = {} THEN 0
  ELSE CHOOSE j \in outerBefore(ss, r) : \A i \in outerBefore(ss, r) : i <= j
isIn(refs, ref) == \E k \in 1..Len(refs) : refs[k] = ref

\* C16: a step that opens a section of level L pops every open section of
\* priority >= priority(L), attaches the new section as the last child of the
\* section left on top (the latest earlier section of a strictly outer level),
\* or as the last root when none is left, and pushes it; so a DIEU section is a
\* root, and a section of the level of its predecessor is its sibling.
C16_ParentIsNearestOuter ==
  [][Len(secs') = Len(secs) + 1 =>
       LET ref == Len(secs')
           level == secs'[ref].level
           n == keptLength(stack, LEVEL_PRIORITY[level])
           parent == IF n = 0 THEN 0 ELSE stack[n]
       IN /\ stack' = Append(SubSeq(stack, 1, n), ref)
          /\ parent = nearestOuter(secs', ref)
          /\ IF parent = 0
             THEN /\ rootSections' = Append(rootSections, ref)
                  /\ \A j \in 1..Len(secs) : secs'[j] = secs[j]
             ELSE /\ rootSections' = rootSections
                  /\ secs'[parent] = [secs[parent] EXCEPT !.children = Append(@, ref)]
                  /\ \A j \in 1..Len(secs) : j # parent => secs'[j] = secs[j]
          /\ level = "DIEU" => parent = 0
          /\ (ref > 1 /\ secs[ref - 1].level = level) =>
               /\ stack[Len(stack)] = ref - 1 /\ n = Len(stack) - 1
               /\ ~isIn(secs'[ref - 1].children, ref)
               /\ IF parent = 0 THEN isIn(rootSections, ref - 1)
                  ELSE isIn(secs[parent].children, ref - 1)
  ]_vars

\* a returned tree where a section closed two open sections at once and became
\* the sibling of the outer one, under a DIEU root
C16_Witness ==
  /\ ppc = "done"
  /\ \E p \in 1..Len(secs) :
       /\ secs[p].level = "DIEU" /\ isIn(rootSections, p)
       /\ Len(secs[p].children) = 2
       /\ LET a == secs[p].children[1]
              b == secs[p].children[2]
          IN /\ secs[a].level = secs[b].level
             /\ Len(secs[a].children) = 1
             /\ b = a + 2
             /\ stack = <<p, b>>


\* C17: a step over a non-blank content line that matchLine does not match
\* appends the trimmed line, after a newline when there is content already, to
\* the contentVi of the section on top of the stack, which is the section
\* created last, and leaves every other section, the stack, the roots and the
\* sortOrder counter as they were; with no section opened yet nothing changes.
\* A step that opens a DASH section gives it the matched text as contentVi and
\* a null titleVi.
C17_ContinuationFrame ==
  [][(ppc = "body" /\ lineNo' = lineNo + 1) =>
       LET line == lines[lineNo + 1]
           trimmed == trimmedOf[line]
       IN /\ (Len(trimmed) # 0 /\ ~matchOf[line].ok) =>
               /\ UNCHANGED <<stack, rootSections, sortCounter>>
               /\ Len(secs') = Len(secs)
               /\ (stack = <<>>) <=> (secs = <<>>)
               /\ IF secs = <<>> THEN UNCHANGED secs
                  ELSE LET top == stack[Len(stack)]
                       IN /\ top = Len(secs)
                          /\ secs'[top] =
                               [secs[top] EXCEPT !.contentVi =
                                  IF @ = <<>> THEN trimmed ELSE @ \o <<"\n">> \o trimmed]
                          /\ \A j \in 1..Len(secs) : j # top => secs'[j] = secs[j]
          /\ (Len(secs') = Len(secs) + 1 /\ secs'[Len(secs')].level = "DASH") =>
               /\ secs'[Len(secs')].contentVi = matchOf[line].text
               /\ secs'[Len(secs')].contentVi # <<>>
               /\ secs'[Len(secs')].titleVi = Null
  ]_vars

\* a returned tree whose document starts with a line dropped for want of an
\* open section, then opens a DASH section and continues it twice
C17_Witness ==
  /\ ppc = "done"
  /\ preambleEndIndex = 0 /\ signatureStartIndex = 4
  /\ lines[1] = LText
  /\ Len(secs) = 1
  /\ secs[1].level = "DASH" /\ secs[1].titleVi = Null
  /\ secs[1].contentVi = <<"E", "\n", "x", "y", "\n", "x", "y">>


\* whether a sample line holds a preamble-end marker, is a Dieu line, starts
\* with a signature marker, evaluated once
markerOf == [l \in AllLines |-> hasPreambleEndMarker(trim(l))]
dieuOf == [l \in AllLines |-> test(RE_DIEU, trim(l))]
signatureOf == [l \in AllLines |-> isSignatureLine(toUpperCase(trim(l)))]
markerLines == {i \in 1..Len(lines) : markerOf[lines[i]]}
dieuLines == {i \in 1..Len(lines) : dieuOf[lines[i]]}
linesText(from, to) == trim(joinLines(slice(lines, from, to)))

C19_SignatureAfterLastDieu ==
  ppc # "start" =>
    /\ preambleEndIndex <= signatureStartIndex
    /\ dieuLines # {} =>
         LET last == Greatest(dieuLines)
             after == {i \in (last + 1)..Len(lines) : signatureOf[lines[i]]}
         IN IF after = {}
            THEN signatureStartIndex = Len(lines) /\ signatureBlock = <<>>
            ELSE /\ signatureStartIndex = Least(after) - 1
                 /\ signatureBlock = linesText(Least(after) - 1, Len(lines))


\* C20 as stated: for a document with no line matching the DIEU pattern the
\* preamble is empty, the signature block is empty and every line is body.
C20_NoDieuAllBody ==
  (ppc # "start" /\ dieuLines = {}) =>
    /\ preambleEndIndex = 0 /\ preamble = <<>>
    /\ signatureStartIndex = Len(lines) /\ signatureBlock = <<>>

\* C20: for a document with no line matching the DIEU pattern the signature
\* block is empty and the body runs to the last line; the preamble is empty,
\* and every line is body, when no line holds a preamble-end marker either,
\* and otherwise the preamble is the lines through the first line that holds
\* one and the lines after it are the body.
C20_NoDieuSignatureEmpty ==
  (ppc # "start" /\ dieuLines = {}) =>
    /\ signatureStartIndex = Len(lines) /\ signatureBlock = <<>>
    /\ IF markerLines = {}
       THEN preambleEndIndex = 0 /\ preamble = <<>>
       ELSE /\ preambleEndIndex = Least(markerLines)
            /\ preamble = linesText(0, Least(markerLines))
    /\ ppc = "done" =>
         /\ lineNo = Len(lines)
         /\ Len(secs) = Len(sectionLinesOf(lines, preambleEndIndex, Len(lines)))

\* a returned tree of a document without DIEU line and without marker, whose
\* line starting with a signature marker became content of a section
C20_Witness ==
  /\ ppc = "done"
  /\ dieuLines = {} /\ markerLines = {}
  /\ \E i \in 1..Len(lines) : signatureOf[lines[i]]
  /\ preamble = <<>> /\ signatureBlock = <<>>
  /\ Len(secs) >= 1
  /\ \E s \in 1..Len(secs) : includes(secs[s].contentVi, trimmedOf[LSig])


-----------------------------------------------------------------------------
(* Claims about extractTargetsRuleBased *)

hasValue(t) == t.targetValue.def \/ t.targetMin.def \/ t.targetMax.def
firstNumber(match) == parseInlineNumber(match.valueStr)
secondNumber(match) ==
  IF match.valueStr2 # <<>> THEN parseInlineNumber(match.valueStr2) ELSE NoNumber

\* the matches findKpiMatches finds in the clauses of a text
RECURSIVE matchesIn(_)
matchesIn(pairs) ==
  IF pairs = <<>> THEN <<>>
  ELSE findKpiMatches(Head(pairs)[2], FreshLastIndex).results \o matchesIn(Tail(pairs))
parseable(matches) ==
  SelectSeq(matches, LAMBDA match : firstNumber(match).def \/ secondNumber(match).def)

\* C3: every target pushed or returned by extractTargetsRuleBased has at least
\* one of targetValue, targetMin, targetMax; a match whose numerals are all
\* unparseable yields no target, so the targets are those of the matches with a
\* parseable numeral.
C3_TargetsHaveAValue ==
  /\ \A k \in 1..Len(targets) : hasValue(targets[k])
  /\ \A k \in 1..Len(returned) : hasValue(returned[k])
  /\ \A k \in 1..Len(origins) : firstNumber(origins[k]).def \/ secondNumber(origins[k]).def
  /\ tpc = "done" => origins = parseable(matchesIn(clausesOf(splitSentences(ruleInput))))

\* a call that returned a target with an upper bound only, on a text that also
\* had a match none of whose numerals parse
C3_Witness ==
  /\ tpc = "done"
  /\ \E k \in 1..Len(returned) :
       returned[k].targetMax.def /\ ~returned[k].targetMin.def /\ ~returned[k].targetValue.def
  /\ Len(matchesIn(clausesOf(splitSentences(ruleInput)))) > Len(targets)

tupleOf(t) == <<t.nameVi, t.targetValue, t.unit, t.targetMin, t.targetMax>>
\* the elements of ts whose tuple no earlier element has
RECURSIVE firstOccurrences(_, _)
firstOccurrences(ts, k) ==
  IF k > Len(ts) THEN <<>>
  ELSE (IF \E j \in 1..(k - 1) : tupleOf(ts[j]) = tupleOf(ts[k]) THEN <<>> ELSE <<ts[k]>>)
       \o firstOccurrences(ts, k + 1)

C5_HistoryIndependent ==
  /\ tpc \in {"idle", "done"} => lastIndex = FreshLastIndex
  /\ tpc = "done" => returned = extractTargetsRuleBased(ruleInput, FreshLastIndex)

\* a third call that returned two targets found by one pattern in one clause
C5_Witness ==
  /\ tpc = "done" /\ calls = 3
  /\ Len(returned) >= 2
  /\ \E j, k \in 1..Len(returned) : j # k /\ returned[j].rawTextVi = returned[k].rawTextVi

unset(n) == ~n.def
\* x = (v + w) / 2
isMidpoint(x, v, w) ==
  LET d == IF v.d > w.d THEN v.d + 1 ELSE w.d + 1
  IN x.def /\ x.d <= d
     /\ 2 * x.m * Pow10(d - x.d) = v.m * Pow10(d - v.d) + w.m * Pow10(d - w.d)

\* C10: the fields of a target follow the comparison of its match, with v
\* (and w) the parsed values: range gives min v, max w and, when both parse,
\* value (v + w) / 2, without tag; above gives min = value = v, tag 'above', no
\* max; below gives max = value = v, tag 'below', no min; approximately gives
\* value v alone and the tag; exact gives value v alone and no tag.
C10_ComparisonFields ==
  \A k \in 1..Len(targets) :
    LET t == targets[k]
        v == firstNumber(origins[k])
        w == secondNumber(origins[k])
        tag == t.metadata.comparison
    IN CASE origins[k].comparison = "range" ->
              /\ t.targetMin = v /\ t.targetMax = w
              /\ (v.def /\ w.def) => isMidpoint(t.targetValue, v, w)
              /\ tag = "none"
         [] origins[k].comparison = "above" ->
              t.targetMin = v /\ t.targetValue = v /\ v.def /\ unset(t.targetMax) /\ tag = "above"
         [] origins[k].comparison = "below" ->
              t.targetMax = v /\ t.targetValue = v /\ v.def /\ unset(t.targetMin) /\ tag = "below"
         [] origins[k].comparison = "approximately" ->
              /\ t.targetValue = v /\ v.def /\ unset(t.targetMin) /\ unset(t.targetMax)
              /\ tag = "approximately"
         [] origins[k].comparison = "exact" ->
              /\ t.targetValue = v /\ v.def /\ unset(t.targetMin) /\ unset(t.targetMax)
              /\ tag = "none"

\* a call that built a range target with its midpoint and a below target
C10_Witness ==
  /\ tpc = "done"
  /\ \E j, k \in 1..Len(targets) :
       /\ origins[j].comparison = "range" /\ targets[j].targetValue.def
       /\ targets[j].targetValue # targets[j].targetMin
       /\ origins[k].comparison = "below" /\ targets[k].targetMax.def

\* the span (0-based start, exclusive end) of a KpiMatch
spanOf(match) == <<match.matchIndex, match.matchIndex + Len(match.matchStr)>>
overlap(a, b) == a[1] < b[2] /\ a[2] > b[1]
\* the spans pattern p yields on a clause when exec is called until it gives
\* null, each call starting where the match before ended
RECURSIVE candidatesFrom(_, _, _)
candidateAfter(p, clause, m) ==
  IF m.ok THEN {<<m.index - 1, m.e - 1>>} \cup candidatesFrom(p, clause, m.e) ELSE {}
candidatesFrom(p, clause, from) ==
  IF from > Len(clause) + 1 THEN {} ELSE candidateAfter(p, clause, kpiExecFrom(p, clause, from))
candidates(clause) ==
  [p \in DOMAIN KPI_REGEX_PATTERNS |-> candidatesFrom(p, clause, 1)]
\* the pattern that claims a span: the first one in priority order that yields it
claimant(cs, span) == Least({p \in DOMAIN cs : span \in cs[p]})
\* first claim wins: the accepted spans are candidates, and every candidate is
\* accepted unless it overlaps a span accepted for a pattern of higher
\* priority, or for the same pattern further left
firstClaimWins(cs, accepted) ==
  /\ accepted \subseteq UNION {cs[p] : p \in DOMAIN cs}
  /\ \A p \in DOMAIN cs : \A c \in cs[p] :
       (c \in accepted /\ claimant(cs, c) = p) <=>
         ~\E a \in accepted : /\ overlap(a, c)
                              /\ \/ claimant(cs, a) < p
                                 \/ claimant(cs, a) = p /\ a[1] < c[1]

\* C21: the matches findKpiMatches returns for a clause have pairwise disjoint
\* spans and are sorted by start; with the patterns in their priority order, a
\* candidate is accepted iff it overlaps no span accepted before it; the
\* clause "... dat 6,5 - 7,0%/nam" yields the range match alone.
C21_FirstClaimWins ==
  LET found == scan.results
      accepted == {spanOf(found[k]) : k \in 1..Len(found)}
  IN /\ \A j, k \in 1..Len(found) : j < k =>
          /\ ~overlap(spanOf(found[j]), spanOf(found[k]))
          /\ found[j].matchIndex < found[k].matchIndex
     /\ scan # NoScan => firstClaimWins(candidates(scan.clause), accepted)
     /\ scan.clause = TRange =>
          /\ Len(found) = 1 /\ found[1].comparison = "range"
          /\ found[1].matchStr = SubSeq(TRange, 21, Len(TRange))

\* a call whose last clause is the range clause, where a pattern of lower
\* priority lost its candidate to the range pattern
C21_Witness ==
  /\ tpc = "done"
  /\ scan.clause = TRange /\ Len(scan.results) = 1
  /\ \E p \in 2..Len(KPI_REGEX_PATTERNS) : candidates(TRange)[p] # {}
  /\ Len(targets) >= 2

\* the years the four rules read in a text, in the order of the rules: "den
\* nam YYYY", "nam YYYY", "giai doan Y1-Y2" (Y2), a standalone 20xx token; and
\* the period "giai doan Y1-Y2" of the text
yearsGiven(text, denNam, nam, giaiDoan, standalone) ==
  (IF denNam.ok THEN <<yearOf(text, denNam, 1)>> ELSE <<>>)
  \o (IF nam.ok THEN <<yearOf(text, nam, 1)>> ELSE <<>>)
  \o (IF giaiDoan.ok THEN <<yearOf(text, giaiDoan, 2)>> ELSE <<>>)
  \o (IF standalone.ok THEN <<yearOf(text, standalone, 1)>> ELSE <<>>)
rulesGiven(text, denNam, nam, giaiDoan, standalone) ==
  [years |-> yearsGiven(text, denNam, nam, giaiDoan, standalone),
   period |-> IF giaiDoan.ok
              THEN <<[startYear |-> yearOf(text, giaiDoan, 1),
                      endYear |-> yearOf(text, giaiDoan, 2)]>>
              ELSE <<>>]
rulesOf(text) ==
  rulesGiven(text, exec(RE_DEN_NAM, text), exec(RE_NAM, text), exec(RE_GIAI_DOAN, text),
             exec(RE_STANDALONE_YEAR, text))
yearRules == [t \in TextUniverse |-> rulesOf(t)]
firstOr(s, none) == IF s # <<>> THEN s[1] ELSE none

\* C22: the targetYear of a target is the year of the first rule that matches
\* its clause, else of the first rule that matches its sentence, else unset;
\* metadata.period is the "giai doan" period of the clause, else of the
\* sentence, else unset, whichever rule gave the targetYear.
C22_YearFromClauseThenSentence ==
  \A k \in 1..Len(scan.targets) :
    LET t == scan.targets[k]
        ofClause == yearRules[scan.clause]
        ofSentence == yearRules[scan.sentence]
    IN /\ t.rawTextVi = trim(scan.clause)
       /\ t.targetYear = firstOr(ofClause.years \o ofSentence.years, NoYear)
       /\ t.metadata.period = firstOr(ofClause.period \o ofSentence.period, NoPeriod)

\* a target whose clause has a standalone year only while its sentence has
\* "den nam": the clause decides
C22_Witness ==
  /\ tpc = "done"
  /\ scan.sentence = TClauseYear /\ scan.clause # scan.sentence
  /\ Len(scan.targets) = 1
  /\ scan.targets[1].targetYear = 2025
  /\ yearRules[scan.sentence].years[1] = 2030

\* the unit patterns that match a text, evaluated once for the sample clauses
unitsMatching(text) == {k \in DOMAIN UNIT_PATTERNS : test(UNIT_PATTERNS[k].regex, text)}
unitMatches == [c \in ClauseUniverse |-> unitsMatching(c)]
\* unit u names unit v and more ("trieu USD" and "USD")
moreSpecific(u, v) == u # v /\ includes(u, v)

\* C23: when unit patterns match the clause, the unit of a target is the unit
\* of one of them, and of none that a more specific matching one contains: a
\* clause with "nghin ty dong" and "%" gets "nghin ty dong", one with "trieu
\* USD" gets "trieu USD", one with "trieu nguoi" gets "trieu nguoi"; the unit
\* hint of the match is used only when no unit pattern matches the clause.
C23_MostSpecificUnit ==
  \A k \in 1..Len(scan.targets) :
    LET unit == scan.targets[k].unit
        matching == unitMatches[scan.clause]
    IN /\ matching # {} =>
            /\ \E p \in matching : unit = Str(UNIT_PATTERNS[p].unit)
            /\ \A p \in matching : unit.null \/ ~moreSpecific(UNIT_PATTERNS[p].unit, unit.v)
       /\ scan.sentence = TMoney => unit = Str(UNIT_PATTERNS[6].unit)
       /\ scan.sentence = TDollars => unit = Str(UNIT_PATTERNS[4].unit)
       /\ scan.sentence = TStandalone => unit = Str(UNIT_PATTERNS[19].unit)

\* the numeral a value string starts with, where the rest holds no digit
numeralsEndedIn(valueStr) ==
  {n \in 1..Len(valueStr) :
     /\ parseVietnameseNumber(SubSeq(valueStr, 1, n)).def
     /\ \A j \in (n + 1)..Len(valueStr) : valueStr[j] \notin Digits}

\* C27: parseInlineNumber gives, for a numeral that parseVietnameseNumber
\* accepts followed by characters that are not digits (a "." or a "," that
\* ends the sentence or the clause among them), the value of the numeral, so
\* the match is not discarded for lack of a value.
C27_TrailingCharactersStripped ==
  \A k \in 1..Len(scan.results) :
    \A n \in numeralsEndedIn(scan.results[k].valueStr) :
      parseInlineNumber(scan.results[k].valueStr)
        = parseVietnameseNumber(SubSeq(scan.results[k].valueStr, 1, n))


-----------------------------------------------------------------------------
(* Claims about extractTargets *)

wantsLLM == orDefault(useLLM, FALSE)
hasKey == isTruthy(apiKey) \/ isTruthy(envKey)
\* what the service answered is one of the failures: a status that is not
\* 2xx, a body that is no message, no text block with a text, a text that is
\* no JSON, JSON that is no array
answerFails(resp) ==
  \/ ~resp.ok
  \/ resp.body.kind # "data"
  \/ \A k \in 1..Len(resp.body.content) : resp.body.content[k].type # "text"
  \/ LET first == CHOOSE k \in 1..Len(resp.body.content) :
                    /\ resp.body.content[k].type = "text"
                    /\ \A j \in 1..(k - 1) : resp.body.content[j].type # "text"
         text == resp.body.content[first].text
     IN \/ text.null
        \/ text.v.fences = "close"
        \/ text.v.json.kind # "array"
llmFails == llmError = "fetch failed" \/ answerFails(response)
objectsOf(resp) ==
  LET first == CHOOSE k \in 1..Len(resp.body.content) : resp.body.content[k].type = "text"
  IN SelectSeq(resp.body.content[first].text.v.json.items, LAMBDA item : item.kind = "object")

\* C6: extractTargets never rejects.  With useLLM true it resolves with
\* extractTargetsRuleBased(text) when there is no key or extractTargetsWithLLM
\* throws (transport error, status, text block, malformed or non-array JSON);
\* with useLLM false no request is sent; when the LLM call succeeds, its result
\* (one target per object of the array) is returned and the rule-based path is
\* not run.
C6_LLMNeverFailsTheCall ==
  /\ xpc # "rejected"
  /\ ~wantsLLM => requests = <<>>
  /\ ~hasKey => requests = <<>>
  /\ xpc = "returned" =>
       IF wantsLLM /\ hasKey /\ ~llmFails
       THEN /\ calls = 0
            /\ Len(requests) = 1
            /\ resolvedWith = fromResponse(response).targets
            /\ Len(resolvedWith) = Len(objectsOf(response))
       ELSE /\ calls = 1
            /\ resolvedWith = extractTargetsRuleBased(xtext, FreshLastIndex)

\* a call that fell back to the rule-based path after an answer that was no
\* JSON, and found a target
C6_Witness ==
  /\ xpc = "returned"
  /\ wantsLLM /\ Len(requests) = 1
  /\ llmError = "Failed to parse Claude API response as JSON"
  /\ resolvedWith # <<>>
  /\ resolvedWith = returned

\* C7: a call extractTargets(text, {useLLM: true}) with a key always
\* eventually returns, whether the service answers or not.
C7_EventuallyReturns == (xpc = "awaitFetch") ~> (xpc = "returned")

-----------------------------------------------------------------------------
(* Claims about runPipeline *)

ran(stage) == \E k \in 1..Len(stagesRun) : stagesRun[k] = stage
timesRun(stage) == Len(SelectSeq(stagesRun, LAMBDA name : name = stage))
ended == rpc \in {"returned", "rejected"}
laterStages == {"parseStructure", "collectLeafSections", "extractTargets", "parseAppendices",
                "parseAppendicesFromHtml", "persistence"}
\* the OCR is called at most once, and only for a PDF whose text is too short
ocrOnlyForShortPdf ==
  /\ ocrCalls <= 1
  /\ ocrCalls = timesRun("extractPdfTextWithOcr")
  /\ ocrCalls = 1 =>
       /\ toLowerCase(actualFile) = DotPdf
       /\ meaningfulTextLength(plainText) < MIN_TEXT_LENGTH
\* a text that is still too short ends the call with a skipped result
shortTextSkips ==
  (ended /\ meaningfulTextLength(rawText) < MIN_TEXT_LENGTH) =>
    /\ rpc = "returned"
    /\ outcome.skipped = Flag(TRUE)
    /\ outcome.skipReason # ""
    /\ outcome.parseStatus = "FAILED"
    /\ outcome.sectionsCount = 0 /\ outcome.targetsCount = 0 /\ outcome.appendicesCount = 0
    /\ \A stage \in laterStages : ~ran(stage)

\* C8: the OCR is called at most once, and only for a PDF whose meaningful text
\* is below MIN_TEXT_LENGTH; a text still below it after that attempt gives a
\* skipped result with a reason, FAILED and counts of 0, and none of the later
\* stages runs; otherwise structure parsing and appendix parsing run, target
\* extraction runs for every leaf when structure parsing returned, and
\* persistence runs unless the call is a dry run.
C8_OcrGate ==
  /\ ocrOnlyForShortPdf
  /\ shortTextSkips
  /\ (ended /\ meaningfulTextLength(rawText) >= MIN_TEXT_LENGTH) =>
       /\ outcome.skipped = NoFlag
       /\ ran("parseStructure")
       /\ ran("parseAppendices") \/ ran("parseAppendicesFromHtml")
       /\ ran("collectLeafSections") <=> ~parsedDoc.null
       /\ timesRun("extractTargets") = Len(collectLeafSections(parsedDoc.sections))
       /\ ran("persistence") <=> ~orDefault(dryRun, FALSE)

\* a PDF whose pages gave markers only: more than MIN_TEXT_LENGTH characters,
\* none of them meaningful; the OCR was tried and the call was skipped
C8_Witness ==
  /\ rpc = "returned"
  /\ ocrCalls = 1
  /\ rawLength(plainText) >= MIN_TEXT_LENGTH
  /\ outcome.skipped = Flag(TRUE)
  /\ outcome.errors = <<"Used OCR fallback", "Extracted text too short">>

\* C8 as stated: when the text is long enough, all the later stages run.
C8_AllLaterStagesRun ==
  /\ ocrOnlyForShortPdf
  /\ shortTextSkips
  /\ (ended /\ meaningfulTextLength(rawText) >= MIN_TEXT_LENGTH) =>
       /\ ran("parseStructure")
       /\ ran("collectLeafSections")
       /\ ran("parseAppendices") \/ ran("parseAppendicesFromHtml")
       /\ ran("persistence")

\* the entry of the errors list that records a failure of the stage
errorOf(stage) ==
  CASE stage = "extractText" -> "Text extraction failed"
    [] stage = "extractTextWithHtml" -> "HTML extraction failed"
    [] stage = "extractPdfTextWithOcr" -> "OCR fallback failed"
    [] stage = "parseStructure" -> "Structure parsing failed"
    [] stage = "extractTargets" -> "Target extraction failed"
    [] stage \in {"parseAppendices", "parseAppendicesFromHtml"} -> "Appendix parsing failed"
    [] stage = "persistence" -> "DB save failed"
    [] OTHER -> "Disconnect failed"
notes == {"Used OCR fallback", "Extracted text too short", "File not found"}

\* C9: runPipeline never rejects, and every failure of a collaborator or
\* stage is an entry of the returned errors list, in the order the stages ran.
C9_FailuresAreRecorded ==
  /\ rpc # "rejected"
  /\ rpc = "returned" =>
       SelectSeq(outcome.errors, LAMBDA entry : entry \notin notes)
         = [k \in 1..Len(raised) |-> errorOf(raised[k])]

\* every section of the tree, whatever its depth
RECURSIVE allSections(_)
allSections(sections) ==
  IF sections = <<>> THEN {}
  ELSE {Head(sections)} \cup allSections(Head(sections).children) \cup allSections(Tail(sections))
\* the sections the extractor is for: no children, and a content that is not blank
scannable(doc) ==
  {section \in allSections(doc.sections) :
     /\ Len(section.children) = 0
     /\ \E k \in 1..Len(section.contentVi) : section.contentVi[k] \notin WhiteSpace}
leavesDone == rpc \in {"appendices", "client", "save", "saveTargets", "disconnect", "returned"}

\* C24: the extractor is called once for each section without children whose
\* contentVi is not blank, with that contentVi as its input, in ascending
\* sortOrder, and for no other section; it is called only after parseStructure
\* has returned.
C24_ExtractorCalledOncePerLeaf ==
  /\ \A k \in 1..Len(extractCalls) :
       /\ ~parsedDoc.null /\ ran("parseStructure")
       /\ \E section \in scannable(parsedDoc) :
            /\ section.sortOrder = extractCalls[k].sortOrder
            /\ section.contentVi = extractCalls[k].input
       /\ \A j \in 1..(k - 1) : extractCalls[j].sortOrder < extractCalls[k].sortOrder
  /\ (leavesDone /\ ~parsedDoc.null) =>
       \A section \in scannable(parsedDoc) :
         \E k \in 1..Len(extractCalls) : extractCalls[k].sortOrder = section.sortOrder

\* a call ended for a tree that has a parent with a content of its own, a leaf
\* whose text is in its title only, and two leaves that were scanned
C24_Witness ==
  /\ rpc = "returned"
  /\ parsedDoc = DocNested
  /\ extractCalls = <<[sortOrder |-> 1, input |-> TBelow], [sortOrder |-> 3, input |-> TExact]>>

\* the targets the map holds, all keys together
targetsHeld == sumOver(targetsBySectionKey, DOMAIN targetsBySectionKey)
\* the save went through: the records were built and the document is marked
saved == store.parseStatus = "COMPLETED"

\* C28: no two scanned leaves have the same key; the count of targets, and
\* the targetsCount of the result, is the number of targets the map holds;
\* once the sections are saved every key of the map has a section id, and the
\* PlanTarget records are targetsCount many whenever their loop has run, as
\* it has in every save that went through.
C28_NoTargetLost ==
  /\ \A one, other \in scannable(parsedDoc) :
       sectionKey(one) = sectionKey(other) => one = other
  /\ totalTargets = targetsHeld
  /\ (rpc = "returned" /\ outcome.skipped = NoFlag) => outcome.targetsCount = targetsHeld
  /\ rpc = "saveTargets" => DOMAIN targetsBySectionKey \subseteq sectionIdMap
  /\ targetRecords \in {0, totalTargets}
  /\ saved => targetRecords = totalTargets
  /\ (rpc = "returned" /\ saved) => targetRecords = outcome.targetsCount

\* a saved call whose tree has two leaves of the same level and number, each
\* with targets
C28_Witness ==
  /\ rpc = "returned" /\ saved
  /\ parsedDoc = DocRepeated
  /\ Cardinality(DOMAIN targetsBySectionKey) = 3
  /\ targetRecords = 3 * MaxLeafTargets
  /\ outcome.targetsCount = targetRecords

\* C29: a call that is not a dry run and returns COMPLETED has its
\* PlanDocument in the store, under the returned documentId and marked
\* COMPLETED; in particular a call whose persistence step failed does not
\* return COMPLETED with an id that the store does not hold or holds as FAILED.
C29_CompletedMeansStored ==
  (/\ rpc = "returned"
   /\ ~orDefault(dryRun, FALSE)
   /\ outcome.skipped = NoFlag
   /\ outcome.parseStatus = "COMPLETED") =>
    store = Stored(outcome.documentId, "COMPLETED")


-----------------------------------------------------------------------------
(* Claims about parseVietnameseNumber *)

allDigits(s) == s # <<>> /\ \A k \in 1..Len(s) : s[k] \in Digits
\* the parts of s between the occurrences of sep
RECURSIVE fieldsOf(_, _, _)
fieldsOf(s, sep, field) ==
  IF s = <<>> THEN <<field>>
  ELSE IF Head(s) = sep THEN <<field>> \o fieldsOf(Tail(s), sep, <<>>)
  ELSE fieldsOf(Tail(s), sep, Append(field, Head(s)))
\* the number whose digits are whole, a decimal point, and frac
decimalOf(negative, whole, frac) ==
  LET mag == digitsValue(whole \o frac, 0)
  IN Number(Norm(IF negative THEN 0 - mag ELSE mag, Len(frac)))
\* d{1,3}(.ddd)+
isGrouped(groups) ==
  /\ Len(groups) >= 2
  /\ allDigits(groups[1]) /\ Len(groups[1]) <= 3
  /\ \A k \in 2..Len(groups) : allDigits(groups[k]) /\ Len(groups[k]) = 3
\* the result the five rules give, the first applicable one deciding
numberByRules(s) ==
  LET negative == s # <<>> /\ Head(s) = "-"
      u == IF negative THEN Tail(s) ELSE s
      byComma == fieldsOf(u, ",", <<>>)
      byDot == fieldsOf(u, ".", <<>>)
  IN IF allDigits(u) THEN decimalOf(negative, u, <<>>)
     ELSE IF Len(byComma) = 1 /\ isGrouped(byDot)
       THEN decimalOf(negative, concat(byDot), <<>>)
     ELSE IF Len(byComma) = 2 /\ isGrouped(fieldsOf(byComma[1], ".", <<>>)) /\ allDigits(byComma[2])
       THEN decimalOf(negative, concat(fieldsOf(byComma[1], ".", <<>>)), byComma[2])
     ELSE IF Len(byComma) = 2 /\ allDigits(byComma[1]) /\ allDigits(byComma[2])
       THEN decimalOf(negative, byComma[1], byComma[2])
     ELSE IF Len(byDot) = 2 /\ allDigits(byDot[1]) /\ allDigits(byDot[2]) /\ Len(byComma) = 1
       THEN (IF Len(byDot[1]) <= 3 /\ Len(byDot[2]) = 3
             THEN decimalOf(negative, byDot[1] \o byDot[2], <<>>)
             ELSE decimalOf(negative, byDot[1], byDot[2]))
     ELSE NoNumber

\* C11: parseVietnameseNumber gives what the first applicable rule gives: (1) an
\* integer string is that integer; (2) d{1,3}(.ddd)+ with optional ,decimals
\* is read with the dots removed and the comma as decimal point; (3)
\* digits,digits has the comma as decimal point; (4) digits.digits is a
\* decimal, but X.YYY with X of 1 to 3 digits is X*1000+YYY; (5) any other
\* string is null.  The string is trimmed first and may start with a minus.
C11_FirstApplicableRule ==
  fpc = "returned" => output = numberByRules(trim(input))

\* the call that read 1.234,56 as 1234.56
C11_Witness ==
  /\ fpc = "returned"
  /\ input = <<"1",".","2","3","4",",","5","6">>
  /\ output = Number(Norm(123456, 2))


-----------------------------------------------------------------------------
(* Claims about the appendix parsers *)

\* the body lines of each appendix of a plain-text document
bodyLinesOf(sectionLines, block) == slice(sectionLines, block.endIdx, Len(sectionLines))
bodiesOf(text, matches) ==
  [mi \in 1..Len(matches) |->
     bodyLinesOf(split(sectionOf(text, matches, mi), Set({"\n"})),
                 extractTitleBlock(split(sectionOf(text, matches, mi), Set({"\n"})), 1))]
textBodies(text) == bodiesOf(text, allMatches(APPENDIX_HEADER_RE, text))
\* the data of the lines of a table that give a row, in the order of the lines
dataOfLines(columns, kept) ==
  [k \in 1..Len(kept) |-> rowData(columns, splitTableRow(kept[k]))]
dataOfTable(tableLines) ==
  IF tableLines = <<>> THEN <<>>
  ELSE dataOfLines(textColumns(splitTableRow(Head(tableLines))),
                   SelectSeq(Tail(tableLines), LAMBDA l : ~isSkippedCells(splitTableRow(l))))
textSourceData(bodyLines) == dataOfTable(SelectSeq(trimEach(bodyLines), isTableLine))
\* the data of the rows of the tables of each appendix of an HTML document, in
\* the order of the document
tableSourceData(table) == [k \in 1..Len(table.rows) |-> table.rows[k].data]
sectionSourceData(html, headers, tablePositions, hi) ==
  concat([k \in 1..Len(tablesBetween(tablePositions, headers[hi].index, nextIndex(html, headers, hi))) |->
            tableSourceData(parsedTables(html, tablesBetween(tablePositions, headers[hi].index,
                                                             nextIndex(html, headers, hi)))[k])])
htmlSourceData(html, hi) ==
  sectionSourceData(html, allMatches(RE_HTML_HEADER, html), allMatches(RE_HTML_TABLE, html), hi)
sourceData(in, k) ==
  IF in.kind = "text" THEN textSourceData(textBodies(in.text)[k]) ELSE htmlSourceData(in.text, k)
\* a is b with some elements left out
RECURSIVE isSubsequence(_, _)
isSubsequence(a, b) ==
  IF a = <<>> THEN TRUE
  ELSE IF b = <<>> THEN FALSE
  ELSE IF Head(a) = Head(b) THEN isSubsequence(Tail(a), Tail(b))
  ELSE isSubsequence(a, Tail(b))
numberedFromOne(rows) ==
  \A i \in 1..Len(rows) : rows[i].rowNumber = i /\ rows[i].sortOrder = i

\* C12: in every appendix returned by parseAppendices or parseAppendicesFromHtml
\* the rows are in the order of the source and the i-th row has rowNumber =
\* sortOrder = i, from 1 on without a gap, also where empty or separator rows
\* were skipped and where the tables of an HTML section were merged.
C12_RowsNumberedInSourceOrder ==
  fpc = "returned" =>
    \A k \in 1..Len(output) :
      /\ numberedFromOne(output[k].rows)
      /\ isSubsequence(tableSourceData(output[k]), sourceData(input, k))

\* two merged tables with different columns, an empty row and a row without
\* cells skipped: three rows, numbered 1, 2, 3
C12_Witness ==
  /\ fpc = "returned"
  /\ input = [kind |-> "html",
              text |-> paragraphs(HeadProject) \o TableNamed \o TableOther]
  /\ Len(output) = 1
  /\ Len(output[1].rows) = 3
  /\ output[1].rows[3].rowNumber = 3
  /\ output[1].rows[3].data.value[<<"T","e^","n">>] = CellText(<<"e">>)

\* the tables between a header and the next, each parsed on its own
tablesOfSection(html, headers, tablePositions, hi) ==
  parsedTables(html, tablesBetween(tablePositions, headers[hi].index,
                                   nextIndex(html, headers, hi)))
sectionTablesOf(html, hi) ==
  tablesOfSection(html, allMatches(RE_HTML_HEADER, html), allMatches(RE_HTML_TABLE, html), hi)
sameColumns(tables) == \A k \in 1..Len(tables) : tables[k].columns = tables[1].columns
summedRows(rows, tables) ==
  Len(tables) >= 2 /\ sameColumns(tables) =>
    [k \in 1..Len(rows) |-> rows[k].data] = concat([k \in 1..Len(tables) |-> tableSourceData(tables[k])])

\* C13: in parseAppendicesFromHtml, where the span of a header holds two or
\* more tables with identical column lists, the appendix of that header has as
\* many rows as the tables have data rows together, the rows of a later table
\* after those of the earlier ones.
C13_IdenticalTablesAreSummed ==
  fpc = "returned" /\ input.kind = "html" =>
    \A hi \in 1..Len(output) : summedRows(output[hi].rows, sectionTablesOf(input.text, hi))


\* the text an HTML document shows from a header to the first table after it
shownTitle(html, headers, tablePositions, hi) ==
  stripHtmlTags(titleHtmlOf(html, headers[hi], nextIndex(html, headers, hi),
                            tablesBetween(tablePositions, headers[hi].index,
                                          nextIndex(html, headers, hi))))
\* the title of the k-th appendix: the one parseAppendices returns, and in an
\* HTML document the text shown under the header
titleOfAppendix(in, out, k) ==
  IF in.kind = "text" THEN out[k].titleVi
  ELSE shownTitle(in.text, allMatches(RE_HTML_HEADER, in.text),
                  allMatches(RE_HTML_TABLE, in.text), k)
hasAnyKeyword(normalised) ==
  \E g \in 1..Len(TYPE_KEYWORDS) : hasKeyword(normalised, TYPE_KEYWORDS[g].keywords)
typeByTitle(title, appendixType) ==
  /\ includes(normalise(title), normalise(<<"d","a","n","h"," ","m","u.","c"," ","d","u+."," ","a'","n">>)) => appendixType = "PROJECT_LIST"
  /\ includes(normalise(title), normalise(<<"b","a?","n"," ","dd","o^!">>)) => appendixType = "MAP_LIST"
  /\ ~hasAnyKeyword(normalise(title)) => appendixType = "MIXED"

\* C14: in both pipelines an appendix whose title contains "danh mục dự án" is
\* a PROJECT_LIST, one whose title contains "bản đồ" is a MAP_LIST, and one
\* whose title matches no keyword is MIXED.
C14_TitleDecidesType ==
  fpc = "returned" =>
    \A k \in 1..Len(output) :
      typeByTitle(titleOfAppendix(input, output, k), output[k].appendixType)

\* the identifier of the k-th header found, empty when it has none
headerIdOf(in, k) ==
  IF in.kind = "text"
  THEN trim(group(in.text, allMatches(APPENDIX_HEADER_RE, in.text)[k], 2))
  ELSE trim(group(in.text, allMatches(RE_HTML_HEADER, in.text)[k], 2))
alphabetPosition(letter) ==
  CHOOSE n \in 1..Len(UpperAscii) : UpperAscii[n] = toUpperChar(letter)
\* the numbers the identifier stands for: the value of the digits, the value
\* of the roman numeral, the position of the single letter (C is 3 and D is 4;
\* the other single roman letters are taken either way), and without
\* identifier the position of the header
numbersOfId(id, position) ==
  IF id = <<>> THEN {position}
  ELSE IF \A k \in 1..Len(id) : id[k] \in Digits THEN {digitsValue(id, 0)}
  ELSE IF Len(id) = 1 /\ id[1] \in AsciiLetters
  THEN {alphabetPosition(id[1])}
       \cup (IF toUpperChar(id[1]) \in {"I", "V", "X", "L", "M"}
             THEN {romanValue(toUpperChar(id[1]))} ELSE {})
  ELSE IF \A k \in 1..Len(id) : id[k] \in RomanLetters THEN {romanToInt(toUpperCase(id))}
  ELSE {position}

\* C25: the number of an appendix is the value of the arabic or roman numeral
\* of its header, the position in the alphabet of its single letter (A=1, B=2,
\* C=3, D=4, ..., Z=26), and the 1-based position of the header among the
\* headers found when it has no identifier.
C25_AppendixNumberOfId ==
  (fpc = "returned" /\ input \in AppendixInputs) =>
    \A k \in 1..Len(output) : output[k].appendixNumber \in numbersOfId(headerIdOf(input, k), k)

\* the cells of the lines of the table of a body: the header line first
tableCellsOf(bodyLines) ==
  [k \in 1..Len(SelectSeq(trimEach(bodyLines), isTableLine)) |->
     splitTableRow(SelectSeq(trimEach(bodyLines), isTableLine)[k])]
keptCells(tableCells) == SelectSeq(Tail(tableCells), LAMBDA cells : ~isSkippedCells(cells))
\* the name of each header position: the text of the cell, Column_N where it
\* is blank
namedByPosition(columns, headerCells) ==
  /\ Len(columns) = Len(headerCells)
  /\ \A n \in 1..Len(headerCells) :
       columns[n] = IF headerCells[n] # <<>> THEN headerCells[n] ELSE columnName(n)
\* the row has the value of the cell under the name of every blank header
\* position, and the cells past the columns under Extra_N
keepsCells(data, headerCells, cells) ==
  /\ \A n \in 1..Len(headerCells) :
       headerCells[n] = <<>> =>
         /\ columnName(n) \in DOMAIN data.value
         /\ data.value[columnName(n)] = cellValue(cellAt(cells, n))
  /\ \A j \in (Len(headerCells) + 1)..Len(cells) :
       /\ extraName(j) \in DOMAIN data.value
       /\ data.value[extraName(j)] = CellText(cells[j])
tableKeepsPositions(table, tableCells) ==
  tableCells # <<>> =>
    /\ namedByPosition(table.columns, Head(tableCells))
    /\ Len(table.rows) = Len(keptCells(tableCells))
    /\ \A r \in 1..Len(table.rows) :
         keepsCells(table.rows[r].data, Head(tableCells), keptCells(tableCells)[r])

\* C26: in parseTextTable a header cell that is not blank gives its text as
\* the column name and a blank header cell at position N gives Column_N, so
\* blank headers get distinct names and every row keeps the value of each of
\* their positions; the cells past the columns are kept under Extra_N.
C26_BlankHeadersNamedByPosition ==
  (fpc = "returned" /\ input \in AppendixInputs /\ input.kind = "text") =>
    \A k \in 1..Len(output) : tableKeepsPositions(output[k], tableCellsOf(textBodies(input.text)[k]))


-----------------------------------------------------------------------------
(* Claims about normalizeLlmTarget *)

\* the type an item supplies, under either name
suppliedType(raw) == orField(fieldOf(raw, "targetType"), fieldOf(raw, "target_type"))
isRecognised(val) == val.kind = "word" /\ toUpperCase(val.s) \in validTypes
typeIsKept(raw, target) ==
  /\ target.targetType \in validTypes
  /\ isRecognised(suppliedType(raw)) => target.targetType = toUpperCase(suppliedType(raw).s)

\* C15: an item that supplies a field under its snake_case name normalizes to
\* the same target as the item that supplies the same value under the camelCase
\* name, for every field, targetType included; and the targetType of the
\* result is one of the three types, QUANTITATIVE by default only where the
\* item's type is absent or not one of the three.
C15_AliasesNormalizeAlike ==
  fpc = "returned" /\ Len(input) = 2 =>
    /\ output[1] = output[2]
    /\ \A k \in 1..2 : typeIsKept(input[k], output[k])

====
